---------------------------- MODULE Spec2Model ----------------------------
(***************************************************************************)
(* Model of the Virginia trout map's stocking-schedule scrapers and of the *)
(* in-memory TTL cache that fronts them.                                   *)
(*                                                                         *)
(* The repository holds four copies of scrapeStockingData:                 *)
(*   "lib"    src/lib/scraper.ts:64-170        DOM parser, plain GET       *)
(*   "range"  src/components/schedule/ScheduleTab.tsx:814-959              *)
(*                                             DOM parser, ranged GET with *)
(*                                             plain-GET fallback          *)
(*   "edge"   src/unnamed/part_000:250-359     regex scanner, ranged GET,  *)
(*                                             parseSpeciesString          *)
(*   "edgeSplit" src/lib/arcgis-client.ts:394-504  regex scanner, ranged   *)
(*                                             GET, split-based species    *)
(* Texts are TLA+ strings; JavaScript indices are kept 0-based (-1 for     *)
(* "not found"); an optional value (undefined / null) is the empty tuple   *)
(* and a present value v is the 1-tuple <<v>>.                             *)
(***************************************************************************)
EXTENDS Integers, Sequences, FiniteSets, TLC

VARIABLES
    variant,    \* which copy of scrapeStockingData runs
    pc,         \* position of the scrape: "start", "fallback", "done", "failed"
    requests,   \* the HTTP GETs issued so far, in order: "ranged" / "plain"
    html,       \* <<doc>> once a response body has been obtained, else <<>>
    events,     \* the list the scrape returned (<<>> unless pc = "done")
    scanned,    \* positions of the tables whose row loop was entered, in order
    store,      \* CacheManager.cache: key -> <<>> or <<entry>>
    now,        \* Date.now()
    ticks,      \* number of clock advances so far
    last,       \* the last cache call and what it returned
    hist,       \* per key: the arguments of the last set since the last clear
    syncPc,     \* position of the sync job: "idle", "inserting", "counting", "done", "failed"
    dbRecords,  \* the records the sync job has to insert, in scrape order
    batchStart, \* i of the batch loop of the sync job
    offset,     \* position of the record loop inside the current batch
    attempts,   \* the insert requests issued so far: [record, outcome]
    newRecords, \* counter of the sync job
    duplicates, \* counter of the sync job
    syncResult, \* <<body>> of the response of the sync job once it answered
    dbTable,    \* the rows of the table trout_stocking_events
    syncRuns,   \* the runs of the sync job that got past the scrape, in order
    probe,      \* the last call of a pure helper: its name, arguments and result
    route       \* the requests the stocking-data route has begun, in that order

scrapeVars == <<variant, pc, requests, html, events, scanned>>
cacheVars == <<store, now, ticks, last, hist>>
syncVars ==
    <<syncPc, dbRecords, batchStart, offset, attempts, newRecords, duplicates,
      syncResult, dbTable, syncRuns>>
vars == <<scrapeVars, cacheVars, syncVars, probe, route>>

(***************************************************************************)
(* Built-in string operations of JavaScript used by the code.              *)
(***************************************************************************)
\* Only({e(x) : x \in {a}}) is e(a) with a evaluated once: x is bound to the
\* value of a, where an operator's argument would be passed unevaluated
Only(S) == CHOOSE x \in S : TRUE

Whitespace == {" ", "\t", "\n"}

Char(s, i) == SubSeq(s, i, i)

\* String.prototype.includes
Includes(s, sub) ==
    \E i \in 1..(Len(s) - Len(sub) + 1) : SubSeq(s, i, i + Len(sub) - 1) = sub

\* String.prototype.trim
Trim(text) ==
    Only({ LET keep == {i \in 1..Len(s) : Char(s, i) \notin Whitespace}
           IN  IF keep = {} THEN ""
               ELSE SubSeq(s, CHOOSE i \in keep : \A j \in keep : i <= j,
                              CHOOSE i \in keep : \A j \in keep : i >= j)
           : s \in {text} })

\* the lower-case form of each upper-case letter
LowerOf ==
    [c \in {"A", "B", "C", "D", "E", "F", "G", "H", "I", "J", "K", "L", "M",
             "N", "O", "P", "Q", "R", "S", "T", "U", "V", "W", "X", "Y", "Z"} |->
        CASE c = "A" -> "a" [] c = "B" -> "b" [] c = "C" -> "c" [] c = "D" -> "d"
          [] c = "E" -> "e" [] c = "F" -> "f" [] c = "G" -> "g" [] c = "H" -> "h"
          [] c = "I" -> "i" [] c = "J" -> "j" [] c = "K" -> "k" [] c = "L" -> "l"
          [] c = "M" -> "m" [] c = "N" -> "n" [] c = "O" -> "o" [] c = "P" -> "p"
          [] c = "Q" -> "q" [] c = "R" -> "r" [] c = "S" -> "s" [] c = "T" -> "t"
          [] c = "U" -> "u" [] c = "V" -> "v" [] c = "W" -> "w" [] c = "X" -> "x"
          [] c = "Y" -> "y" [] OTHER -> "z"] @@ <<>>

LowerChar(c) == IF c \in DOMAIN LowerOf THEN LowerOf[c] ELSE c

RECURSIVE LowerFrom(_, _)
LowerFrom(s, i) ==
    IF i > Len(s) THEN ""
    ELSE Only({LowerChar(c) : c \in {Char(s, i)}}) \o LowerFrom(s, i + 1)

\* String.prototype.toLowerCase
ToLowerCase(text) == Only({LowerFrom(s, 1) : s \in {text}})

RECURSIVE ReplaceWsFrom(_, _)
ReplaceWsFrom(s, i) ==
    IF i > Len(s) THEN ""
    ELSE (IF Char(s, i) \notin Whitespace THEN Char(s, i)
          ELSE IF i > 1 /\ Char(s, i - 1) \in Whitespace THEN ""
          ELSE "-") \o ReplaceWsFrom(s, i + 1)

\* s.replace(/\s+/g, '-'): every maximal whitespace run becomes one hyphen
ReplaceWsRuns(text) == Only({ReplaceWsFrom(s, 1) : s \in {text}})

Delimiters == {"+", "/", ","}

\* the piece of s from position i up to the next delimiter or the end
RECURSIVE PieceFrom(_, _)
PieceFrom(s, i) ==
    IF i > Len(s) \/ Char(s, i) \in Delimiters THEN ""
    ELSE Char(s, i) \o PieceFrom(s, i + 1)

\* s.split(/[+\/,]/): the pieces between the delimiters, empty pieces kept
SplitDelims(text) ==
    Only({ LET cuts == {i \in 1..Len(s) : Char(s, i) \in Delimiters}
               starts == {1} \cup {i + 1 : i \in cuts}
               start(k) == CHOOSE i \in starts :
                              Cardinality({j \in starts : j < i}) = k - 1
           IN  [k \in 1..Cardinality(starts) |-> PieceFrom(s, start(k))] @@ <<>>
           : s \in {text} })

RECURSIVE JoinFrom(_, _, _)
JoinFrom(parts, k, sep) ==
    IF k > Len(parts) THEN ""
    ELSE (IF k > 1 THEN sep ELSE "") \o parts[k] \o JoinFrom(parts, k + 1, sep)

\* Array.prototype.join
Join(list, sep) == Only({JoinFrom(parts, 1, sep) : parts \in {list}})

\* Array.prototype.includes on a list of strings
Contains(list, x) == \E k \in 1..Len(list) : list[k] = x

\* String.prototype.indexOf (0-based, -1 when absent)
IndexOf(text, sub) ==
    Only({ LET hits == {i \in 1..(Len(s) - Len(sub) + 1) :
                            SubSeq(s, i, i + Len(sub) - 1) = sub}
           IN  IF hits = {} THEN -1
               ELSE (CHOOSE i \in hits : \A j \in hits : i <= j) - 1
           : s \in {text} })

\* cells[idx] of a JavaScript array: undefined outside the array
At(cells, idx) ==
    IF idx >= 0 /\ idx < Len(cells) THEN <<cells[idx + 1]>> ELSE <<>>

(***************************************************************************)
(* Text normalizers.                                                       *)
(***************************************************************************)
Variants == {"lib", "range", "edge", "edgeSplit"}
DomVariants == {"lib", "range"}

\* the speciesMap object literal; the copy in src/lib/scraper.ts has no tiger
SpeciesMap(v) ==
    LET common == [k \in {"rainbow", "rainbow trout", "brown", "brown trout",
                          "brook", "brook trout", "golden", "golden trout"} |->
                     CASE k \in {"rainbow", "rainbow trout"} -> "Rainbow Trout"
                       [] k \in {"brown", "brown trout"} -> "Brown Trout"
                       [] k \in {"brook", "brook trout"} -> "Brook Trout"
                       [] OTHER -> "Golden Trout"]
        tiger == [k \in {"tiger", "tiger trout"} |-> "Tiger Trout"]
    IN  IF v = "lib" THEN common ELSE common @@ tiger

\* the lower-case property names every object literal inherits from
\* Object.prototype: speciesMap[name] is a function or an object for them
InheritedKeys == {"constructor", "__proto__"}

\* speciesMap[normalized] || species; an inherited property is truthy and is
\* returned as it is (a value that is not a string)
normalizeSpecies(v, species) ==
    Only({ IF normalized \in DOMAIN SpeciesMap(v)
           THEN SpeciesMap(v)[normalized]
           ELSE IF normalized \in InheritedKeys
           THEN [inherited |-> normalized]
           ELSE species
           : normalized \in {ToLowerCase(Trim(species))} })

\* new Date(cleaned) followed by toISOString(), for the date texts of the
\* model's pages (the process runs in UTC); any other text is an Invalid Date
KnownDates ==
    [d \in {"June 1, 2024", "June 2, 2024", "2024-06-03"} |->
        CASE d = "June 1, 2024" -> "2024-06-01T00:00:00.000Z"
          [] d = "June 2, 2024" -> "2024-06-02T00:00:00.000Z"
          [] OTHER -> "2024-06-03T00:00:00.000Z"]

\* returns <<iso>> or <<>> (null); never throws on a string
parseDate(dateStr) ==
    LET cleaned == Trim(dateStr)
    IN  IF cleaned \in DOMAIN KnownDates THEN <<KnownDates[cleaned]>> ELSE <<>>

Digits == "0123456789"
IsDigit(c) == \E k \in 1..Len(Digits) : Char(Digits, k) = c
DigitValue(c) == (CHOOSE k \in 1..Len(Digits) : Char(Digits, k) = c) - 1

\* text.match(/[\d,]+/): the first maximal run of digits and commas, or <<>>
RECURSIVE RunFrom(_, _)
RunFrom(s, i) ==
    IF i <= Len(s) /\ (IsDigit(Char(s, i)) \/ Char(s, i) = ",")
    THEN Char(s, i) \o RunFrom(s, i + 1)
    ELSE ""

FirstRun(text) ==
    Only({ LET starts == {i \in 1..Len(s) : IsDigit(Char(s, i)) \/ Char(s, i) = ","}
           IN  IF starts = {} THEN <<>>
               ELSE <<RunFrom(s, CHOOSE i \in starts : \A j \in starts : i <= j)>>
           : s \in {text} })

\* run.replace(/,/g, '')
RECURSIVE StripCommasFrom(_, _)
StripCommasFrom(s, i) ==
    IF i > Len(s) THEN ""
    ELSE (IF Char(s, i) = "," THEN "" ELSE Char(s, i)) \o StripCommasFrom(s, i + 1)

StripCommas(text) == Only({StripCommasFrom(s, 1) : s \in {text}})

\* the value of the decimal digits s[i..], after the value acc of s[1..i-1]
RECURSIVE DigitsValue(_, _, _)
DigitsValue(s, i, acc) ==
    IF i > Len(s) THEN acc
    ELSE Only({DigitsValue(s, i + 1, a) : a \in {acc * 10 + DigitValue(Char(s, i))}})

\* parseInt(s, 10) of a string of digits: NaN when it is empty
ParseInt(text) ==
    Only({ IF Len(s) = 0 THEN [kind |-> "NaN", val |-> 0]
           ELSE [kind |-> "number", val |-> DigitsValue(s, 1, 0)]
           : s \in {text} })

NoNumber == [kind |-> "undefined", val |-> 0]

extractNumber(text) ==
    Only({ IF match # <<>> THEN ParseInt(StripCommas(match[1])) ELSE NoNumber
           : match \in {FirstRun(text)} })

\* validSpecies of parseSpeciesString, in the order of the array literal
validSpecies ==
    <<"Rainbow Trout", "Brown Trout", "Brook Trout", "Tiger Trout", "Golden Trout">>

\* the loop over parts.split(/[+\/,]/)
RECURSIVE ParseParts(_, _, _, _)
ParseParts(v, parts, k, parsed) ==
    IF k > Len(parts) THEN parsed
    ELSE Only({ ParseParts(v, parts, k + 1,
                           IF normalized # "" /\ ~Contains(parsed, normalized)
                           THEN Append(parsed, normalized)
                           ELSE parsed)
                : normalized \in {normalizeSpecies(v, Trim(parts[k]))} })

\* the loop over validSpecies: each name found is pushed and cut out once
RECURSIVE ExtractKnown(_, _, _)
ExtractKnown(k, text, parsed) ==
    IF k > Len(validSpecies) THEN parsed
    ELSE Only({ Only({ IF index # -1
                       THEN ExtractKnown(k + 1,
                                SubSeq(remaining, 1, index) \o
                                SubSeq(remaining, index + Len(validSpecies[k]) + 1,
                                       Len(remaining)),
                                Append(parsed, validSpecies[k]))
                       ELSE ExtractKnown(k + 1, remaining, parsed)
                       : index \in {IndexOf(remaining, validSpecies[k])} })
                : remaining \in {text} })

\* what parseSpeciesString does with a text that is not blank
ParseSpeciesText(v, speciesText, remaining) ==
    IF \E d \in Delimiters : Includes(remaining, d)
    THEN Only({ IF Len(parsed) > 0 THEN parsed ELSE <<speciesText>>
                : parsed \in {ParseParts(v, SplitDelims(remaining), 1, <<>>)} })
    ELSE Only({ IF Len(parsed) > 0 THEN parsed
                ELSE <<normalizeSpecies(v, speciesText)>>
                : parsed \in {ExtractKnown(1, remaining, <<>>)} })

\* speciesText is an optional text (undefined when the row lacks the cell)
parseSpeciesString(v, speciesText) ==
    IF speciesText = <<>> THEN <<>>
    ELSE Only({ IF remaining = "" THEN <<>>
                ELSE ParseSpeciesText(v, speciesText[1], remaining)
                : remaining \in {Trim(speciesText[1])} })

\* speciesText.split(/[+\/,]/).map(normalizeSpecies)
\*            .filter(s => s && s !== 'Unknown')
SplitList(v, speciesText) ==
    Only({ SelectSeq([k \in 1..Len(parts) |-> normalizeSpecies(v, parts[k])] @@ <<>>,
                     LAMBDA s : s # "" /\ s # "Unknown")
           : parts \in {SplitDelims(speciesText)} })

\* ... .join(' + ')
SplitSpecies(v, speciesText) == Join(SplitList(v, speciesText), " + ")

(***************************************************************************)
(* Pages.  A document is the ordered list of its tables; a table is the    *)
(* ordered list of its <tr> rows; a row is [tag, cells]: its cells are all *)
(* <th> or all <td> and cells holds their raw texts.                       *)
(***************************************************************************)
Row(tag, cells) == [tag |-> tag, cells |-> cells]

\* headerRow.querySelectorAll('th, td') / the <t[hd]> cells of the first <tr>
HeaderCells(table) == table[1].cells

\* row.querySelectorAll('td') / the <td> cells of a row
DataCells(row) == IF row.tag = "td" THEN row.cells ELSE <<>>

(***************************************************************************)
(* Column mapper.                                                          *)
(***************************************************************************)
Fields == {"date", "waterBody", "county", "species", "category", "pounds", "number"}

\* the keywords each copy tests with h.includes(...); {} when the copy does
\* not look for the field at all
Keywords(v, field) ==
    CASE field = "date" -> {"date", "when"}
      [] field = "waterBody" ->
            IF v = "range" THEN {"water", "location", "stream", "lake", "waterbody"}
            ELSE {"water", "location", "stream", "lake"}
      [] field = "county" -> {"county"}
      [] field = "species" ->
            IF v = "lib" THEN {"species", "fish"} ELSE {"species", "fish", "stocked"}
      [] field = "category" -> IF v = "lib" THEN {} ELSE {"category", "cat"}
      [] field = "pounds" ->
            IF v \in DomVariants THEN {"pound", "lbs", "weight"} ELSE {}
      [] OTHER -> {"number", "count", "qty"}

\* a findLastIndex in the place of findIndex
FindLastIndex(headerTexts, kws) ==
    LET hits == {i \in 1..Len(headerTexts) :
                    \E k \in kws : Includes(headerTexts[i], k)}
    IN  IF hits = {} THEN -1
        ELSE (CHOOSE i \in hits : \A j \in hits : i >= j) - 1

\* headerTexts.findIndex(h => kws.some(k => h.includes(k)))
FindIndex(headerTexts, kws) ==
    LET hits == {i \in 1..Len(headerTexts) :
                    \E k \in kws : Includes(headerTexts[i], k)}
    IN  IF hits = {} THEN -1
        ELSE (CHOOSE i \in hits : \A j \in hits : i <= j) - 1

\* headers.map(h => h.text.trim().toLowerCase())
HeaderTexts(table) ==
    [i \in 1..Len(HeaderCells(table)) |-> ToLowerCase(Trim(HeaderCells(table)[i]))] @@ <<>>

ColumnIndices(v, table) ==
    Only({ [f \in Fields |-> FindIndex(headerTexts, Keywords(v, f))] @@ <<>>
           : headerTexts \in {HeaderTexts(table)} })

\* Viable without the test of the date index
ViableWaterOnly(v, table) ==
    /\ Len(table) > 0
    /\ Len(HeaderCells(table)) > 0
    /\ \E indices \in {ColumnIndices(v, table)} : indices["waterBody"] # -1

\* the three guards before the row loop: the table has a row, the header row
\* has a cell, and both required columns were found
Viable(v, table) ==
    /\ Len(table) > 0
    /\ Len(HeaderCells(table)) > 0
    /\ \E indices \in {ColumnIndices(v, table)} :
          indices["date"] # -1 /\ indices["waterBody"] # -1

(***************************************************************************)
(* Row extractor.  RowOutcome is what the body of the row loop does with   *)
(* row i of a table: "skip" (a continue), "event" (events.push) or "throw" *)
(* (a TypeError raised by reading a property of undefined).                *)
(***************************************************************************)
Skip == [kind |-> "skip"]
Throw == [kind |-> "throw"]
Emit(e) == [kind |-> "event", event |-> e]

\* EventId without toLowerCase()
EventIdCased(waterBody, date, i) ==
    ReplaceWsRuns(waterBody \o "-" \o date \o "-" \o ToString(i))

\* an id without the row ordinal
EventIdUnnumbered(waterBody, date, i) ==
    ToLowerCase(ReplaceWsRuns(waterBody \o "-" \o date))

\* `${waterBody}-${date}-${i}`.replace(/\s+/g, '-').toLowerCase()
EventId(waterBody, date, i) ==
    ToLowerCase(ReplaceWsRuns(waterBody \o "-" \o date \o "-" \o ToString(i)))

\* cells[idx]?.text.trim()
TrimmedAt(cells, idx) ==
    IF At(cells, idx) = <<>> THEN <<>> ELSE <<Trim(At(cells, idx)[1])>>

\* the species expression of each copy; <<>> when evaluating it throws
SpeciesOf(v, idx, cells) ==
    CASE v = "lib" ->
            IF idx["species"] = -1 THEN <<"Unknown">>
            ELSE LET cell == At(cells, idx["species"])
                 IN  <<normalizeSpecies(v, IF cell = <<>> \/ cell[1] = ""
                                           THEN "Unknown" ELSE cell[1])>>
      [] v \in {"range", "edgeSplit"} ->
            LET speciesText == IF idx["species"] = -1 THEN <<"Unknown">>
                               ELSE TrimmedAt(cells, idx["species"])
            IN  IF speciesText = <<>> THEN <<>>
                ELSE LET speciesList == SplitSpecies(v, speciesText[1])
                     IN  <<IF speciesList = "" THEN "Unknown" ELSE speciesList>>
      [] OTHER ->
            LET speciesText == IF idx["species"] = -1 THEN <<"Unknown">>
                               ELSE TrimmedAt(cells, idx["species"])
                speciesList == parseSpeciesString(v, speciesText)
            IN  <<IF Len(speciesList) > 0 THEN Join(speciesList, " + ") ELSE "Unknown">>

\* an optional numeric field: the DOM copies test that the cell exists, the
\* regex copies call extractNumber on whatever cellValues[idx] is
NumberOf(v, i, cells) ==
    IF i = -1 THEN <<NoNumber>>
    ELSE IF At(cells, i) = <<>>
         THEN (IF v \in DomVariants THEN <<NoNumber>> ELSE <<>>)
         ELSE <<extractNumber(IF v \in DomVariants THEN At(cells, i)[1]
                              ELSE Trim(At(cells, i)[1]))>>

\* the event the row body pushes once the optional fields have been read
RowEvent(idx, cells, waterBody, date, i, species, pounds, number) ==
    IF species = <<>> \/ pounds = <<>> \/ number = <<>> THEN Throw
    ELSE Emit([id |-> EventId(waterBody, date, i),
               waterBody |-> waterBody,
               county |-> IF idx["county"] = -1 THEN <<"Unknown">>
                          ELSE TrimmedAt(cells, idx["county"]),
               species |-> species[1],
               date |-> date,
               pounds |-> pounds[1],
               numberOfFish |-> number[1],
               category |-> IF idx["category"] = -1 THEN <<>>
                            ELSE TrimmedAt(cells, idx["category"])])

\* RowOutcome without the emptiness tests of !dateStr || !waterBody
RowOutcomeUnchecked(v, idx, row, i) ==
    Only({ IF Len(cells) = 0 THEN Skip
           ELSE IF dateStr = <<>> \/ waterBody = <<>> THEN Skip
           ELSE Only({ IF date = <<>> THEN Skip
                       ELSE Only({ RowEvent(idx, cells, waterBody[1], date[1], i,
                                            species, pounds, number)
                                   : species \in {SpeciesOf(v, idx, cells)},
                                     pounds \in {NumberOf(v, idx["pounds"], cells)},
                                     number \in {NumberOf(v, idx["number"], cells)} })
                       : date \in {parseDate(dateStr[1])} })
           : cells \in {DataCells(row)},
             dateStr \in {TrimmedAt(DataCells(row), idx["date"])},
             waterBody \in {TrimmedAt(DataCells(row), idx["waterBody"])} })

RowOutcome(v, idx, row, i) ==
    Only({ IF Len(cells) = 0 THEN Skip
           ELSE IF dateStr = <<>> \/ dateStr[1] = "" \/ waterBody = <<>> \/ waterBody[1] = ""
           THEN Skip
           ELSE Only({ IF date = <<>> THEN Skip
                       ELSE Only({ RowEvent(idx, cells, waterBody[1], date[1], i,
                                            species, pounds, number)
                                   : species \in {SpeciesOf(v, idx, cells)},
                                     pounds \in {NumberOf(v, idx["pounds"], cells)},
                                     number \in {NumberOf(v, idx["number"], cells)} })
                       : date \in {parseDate(dateStr[1])} })
           : cells \in {DataCells(row)},
             dateStr \in {TrimmedAt(DataCells(row), idx["date"])},
             waterBody \in {TrimmedAt(DataCells(row), idx["waterBody"])} })

(***************************************************************************)
(* Row loop.  A scan result is [events, raised]: raised is TRUE when an    *)
(* exception left the loops (the list built so far is then lost).          *)
(***************************************************************************)
\* the DOM copies wrap the body of the row loop in try/catch; the regex
\* copies do not
RowIsGuarded(v) == v \in DomVariants

\* a row loop that puts each event in front of the list (events.unshift)
RECURSIVE ScanRowsNewestFirst(_, _, _, _, _)
ScanRowsNewestFirst(v, idx, table, i, acc) ==
    IF i >= Len(table) THEN [events |-> acc, raised |-> FALSE]
    ELSE Only({ CASE out.kind = "event" ->
                       ScanRowsNewestFirst(v, idx, table, i + 1, <<out.event>> \o acc)
                  [] out.kind = "throw" /\ ~RowIsGuarded(v) ->
                       [events |-> acc, raised |-> TRUE]
                  [] OTHER -> ScanRowsNewestFirst(v, idx, table, i + 1, acc)
                : out \in {RowOutcome(v, idx, table[i + 1], i)} })

\* for (let i = 1; i < rows.length; i++) { ... }
RECURSIVE ScanRows(_, _, _, _, _)
ScanRows(v, idx, table, i, acc) ==
    IF i >= Len(table) THEN [events |-> acc, raised |-> FALSE]
    ELSE Only({ CASE out.kind = "event" ->
                       ScanRows(v, idx, table, i + 1, Append(acc, out.event))
                  [] out.kind = "throw" /\ ~RowIsGuarded(v) ->
                       [events |-> acc, raised |-> TRUE]
                  [] OTHER -> ScanRows(v, idx, table, i + 1, acc)
                : out \in {RowOutcome(v, idx, table[i + 1], i)} })

(***************************************************************************)
(* The pages the model feeds to the scrapers.                              *)
(***************************************************************************)
MaxTables == 2      \* tables per document
MaxRows == 2        \* data rows per document, over all its tables

HeaderRows ==
    { Row("th", <<"Date", "Water Body", "County", "Species">>),
      Row("th", <<"Stocking Date", "Location", "Number">>),
      Row("td", <<"Water Body", "Lake County">>) }

DataRows ==
    { Row("td", <<"June 1, 2024", "Smith Creek", "Bath", "Rainbow Trout">>),
      Row("td", <<"not a date", "Jones Lake", "Bath", "Brown">>),
      Row("td", <<" June 2, 2024 ", "Jones Lake">>),
      Row("td", <<"2024-06-03", " ", "12", "Brook/Rainbow">>) }

\* the tables with exactly n data rows (with none: also the table that has
\* no <tr> at all)
TablesWith ==
    [n \in 0..MaxRows |->
        {<<h>> \o rs : h \in HeaderRows, rs \in [1..n -> DataRows]} \cup
        (IF n = 0 THEN {<<>>} ELSE {})] @@ <<>>

RECURSIVE Sum(_)
Sum(counts) == IF counts = <<>> THEN 0 ELSE counts[1] + Sum(Tail(counts))

\* the shapes of the documents: the numbers of data rows of their tables, for
\* at most MaxTables tables and at most MaxRows data rows in all
Shapes ==
    UNION {{counts \in [1..k -> 0..MaxRows] : Sum(counts) <= MaxRows} : k \in 0..MaxTables}

\* the documents of a shape
RECURSIVE DocsOf(_)
DocsOf(shape) ==
    IF shape = <<>> THEN {<<>>}
    ELSE {<<tb>> \o d : tb \in TablesWith[shape[1]], d \in DocsOf(Tail(shape))}

ModelTables == UNION {TablesWith[n] : n \in 0..MaxRows}

\* the body of the table loop for one table, from its guards to the end of the
\* row loop.  events is empty whenever the row loop is entered (the scan leaves
\* the table loop as soon as it is not), so the loop is run on an empty list.
ScanTable(v, table) ==
    IF ~Viable(v, table) THEN [viable |-> FALSE, events |-> <<>>, raised |-> FALSE]
    ELSE Only({ [viable |-> TRUE, events |-> r.events, raised |-> r.raised]
                : r \in {ScanRows(v, ColumnIndices(v, table), table, 1, <<>>)} })

\* ScanTable, tabulated once for every copy and every table of the model's pages
TableResults ==
    [p \in Variants \X ModelTables |-> ScanTable(p[1], p[2])] @@ <<>>

\* for (const table of tables) { ...; if (events.length > 0) break; }
\* read lists the tables that got past the guards
RECURSIVE ScanTables(_, _, _, _)
ScanTables(v, doc, t, read) ==
    IF t > Len(doc) THEN [events |-> <<>>, raised |-> FALSE, scanned |-> read]
    ELSE Only({ IF ~r.viable THEN ScanTables(v, doc, t + 1, read)
                ELSE IF r.raised
                THEN [events |-> r.events, raised |-> TRUE, scanned |-> Append(read, t)]
                ELSE IF Len(r.events) > 0
                THEN [events |-> r.events, raised |-> FALSE, scanned |-> Append(read, t)]
                ELSE ScanTables(v, doc, t + 1, Append(read, t))
                : r \in {TableResults[<<v, doc[t]>>]} })

ParsePage(v, doc) == ScanTables(v, doc, 1, <<>>)

(***************************************************************************)
(* The scrape as a process.  Each await of the HTTP layer is one step; the *)
(* parse that follows a response body is synchronous and belongs to the    *)
(* step that delivers the body.                                            *)
(***************************************************************************)
\* the first request of each copy
FirstRequest(v) == IF v = "lib" THEN "plain" ELSE "ranged"

\* whether a failed first request is caught and answered by a plain GET
HasFallback(v) == v = "range"

\* the rest of the function after html has been assigned
Finish(doc) ==
    \E r \in {ParsePage(variant, doc)} :
        /\ html' = <<doc>>
        /\ pc' = IF r.raised THEN "failed" ELSE "done"
        /\ events' = IF r.raised THEN <<>> ELSE r.events
        /\ scanned' = r.scanned

\* the first fetch resolves with a 2xx response whose body is doc
FetchOk ==
    /\ pc = "start"
    /\ requests' = Append(requests, FirstRequest(variant))
    /\ \E shape \in Shapes : \E doc \in DocsOf(shape) : Finish(doc)
    /\ UNCHANGED <<variant, cacheVars, syncVars, probe, route>>

\* the first fetch rejects (network error) or resolves with a non-2xx status
FetchFail ==
    /\ pc = "start"
    /\ requests' = Append(requests, FirstRequest(variant))
    /\ pc' = IF HasFallback(variant) THEN "fallback" ELSE "failed"
    /\ UNCHANGED <<variant, html, events, scanned, cacheVars, syncVars, probe, route>>

\* the fallback fetch resolves with a 2xx response whose body is doc
FallbackOk ==
    /\ pc = "fallback"
    /\ requests' = Append(requests, "plain")
    /\ \E shape \in Shapes : \E doc \in DocsOf(shape) : Finish(doc)
    /\ UNCHANGED <<variant, cacheVars, syncVars, probe, route>>

\* the fallback fetch fails too
FallbackFail ==
    /\ pc = "fallback"
    /\ requests' = Append(requests, "plain")
    /\ pc' = "failed"
    /\ UNCHANGED <<variant, html, events, scanned, cacheVars, syncVars, probe, route>>

(***************************************************************************)
(* CacheManager (src/lib/cache.ts).                                        *)
(***************************************************************************)
defaultTTL == 3600000

CACHE_KEY == "stocking-data"
Keys == {CACHE_KEY, "layer"}

\* the payloads callers store; <<>> is null
DataValues == {<<>>, <<"a">>}

MaxTtl == 1         \* the largest explicit ttl argument
MaxTicks == 2       \* clock advances per behaviour

\* the ttl argument: omitted, or a number
TtlArgs == {<<>>} \cup {<<t>> : t \in 0..MaxTtl}

\* by how much the clock moves between two calls
TickDeltas == {1, defaultTTL}

\* IsExpired with >= in place of >
IsExpiredAtDeadline(entry) == now >= entry.expiresAt

NoStatus == [isCached |-> FALSE, lastUpdated |-> <<>>, expiresAt |-> <<>>, age |-> <<>>]

\* Date.now() > entry.expiresAt
IsExpired(entry) == now > entry.expiresAt

\* what the store holds under key when a call arrives
Found(key) ==
    IF store[key] = <<>> THEN "none"
    ELSE IF IsExpired(store[key][1]) THEN "expired"
    ELSE "live"

Call(op, key) ==
    [op |-> op, key |-> key, at |-> now, found |-> Found(key), ttl |-> <<>>,
     data |-> <<>>, ret |-> <<>>, flag |-> FALSE, status |-> NoStatus]

\* n in decimal, padded with zeros to width digits
Pad(n, width) ==
    IF width = 3 /\ n < 10 THEN "00" \o ToString(n)
    ELSE IF n < 10 \/ (width = 3 /\ n < 100) THEN "0" \o ToString(n)
    ELSE ToString(n)

\* new Date(ms).toISOString(), for the instants of January 1970
ToISOString(ms) ==
    "1970-01-" \o Pad((ms \div 86400000) + 1, 2) \o "T" \o
    Pad((ms % 86400000) \div 3600000, 2) \o ":" \o
    Pad((ms % 3600000) \div 60000, 2) \o ":" \o
    Pad((ms % 60000) \div 1000, 2) \o "." \o
    Pad(ms % 1000, 3) \o "Z"

\* ttl || this.defaultTTL
EffectiveTtl(ttl) == IF ttl = <<>> \/ ttl[1] = 0 THEN defaultTTL ELSE ttl[1]

NewEntry(data, ttl) ==
    [data |-> data, timestamp |-> now, expiresAt |-> now + EffectiveTtl(ttl)]

\* the store after get(key), and what get(key) returns
GetStore(key) ==
    IF store[key] # <<>> /\ IsExpired(store[key][1])
    THEN [store EXCEPT ![key] = <<>>]
    ELSE store

GetResult(key) ==
    IF store[key] = <<>> THEN <<>>
    ELSE IF IsExpired(store[key][1]) THEN <<>>
    ELSE store[key][1].data

\* what getStatus(key) returns when the map is st
StatusIn(st, key) ==
    IF st[key] = <<>> THEN NoStatus
    ELSE IF IsExpired(st[key][1]) THEN NoStatus
    ELSE [isCached |-> TRUE,
          lastUpdated |-> <<ToISOString(st[key][1].timestamp)>>,
          expiresAt |-> <<ToISOString(st[key][1].expiresAt)>>,
          age |-> <<now - st[key][1].timestamp>>]

StatusResult(key) == StatusIn(store, key)

\* Set that leaves an entry already stored under key in place
SetIfAbsent(key, data, ttl) ==
    /\ store' = IF store[key] # <<>> THEN store
                ELSE [store EXCEPT ![key] = <<NewEntry(data, ttl)>>]
    /\ last' = [Call("set", key) EXCEPT !.ttl = ttl, !.data = data]
    /\ hist' = [hist EXCEPT ![key] = <<[at |-> now, ttl |-> ttl, data |-> data]>>]
    /\ UNCHANGED <<now, ticks, scrapeVars, syncVars, probe, route>>

Set(key, data, ttl) ==
    /\ store' = [store EXCEPT ![key] = <<NewEntry(data, ttl)>>]
    /\ last' = [Call("set", key) EXCEPT !.ttl = ttl, !.data = data]
    /\ hist' = [hist EXCEPT ![key] = <<[at |-> now, ttl |-> ttl, data |-> data]>>]
    /\ UNCHANGED <<now, ticks, scrapeVars, syncVars, probe, route>>

Get(key) ==
    /\ store' = GetStore(key)
    /\ last' = [Call("get", key) EXCEPT !.ret = GetResult(key)]
    /\ UNCHANGED <<now, ticks, hist, scrapeVars, syncVars, probe, route>>

GetStatus(key) ==
    /\ store' = GetStore(key)
    /\ last' = [Call("getStatus", key) EXCEPT !.status = StatusResult(key)]
    /\ UNCHANGED <<now, ticks, hist, scrapeVars, syncVars, probe, route>>

\* return this.get(key) !== null
Has(key) ==
    /\ store' = GetStore(key)
    /\ last' = [Call("has", key) EXCEPT !.flag = (GetResult(key) # <<>>)]
    /\ UNCHANGED <<now, ticks, hist, scrapeVars, syncVars, probe, route>>

\* Clear that empties the whole map
ClearEverything(key) ==
    /\ store' = [k \in Keys |-> <<>>]
    /\ last' = Call("clear", key)
    /\ hist' = [hist EXCEPT ![key] = <<>>]
    /\ UNCHANGED <<now, ticks, scrapeVars, syncVars, probe, route>>

Clear(key) ==
    /\ store' = [store EXCEPT ![key] = <<>>]
    /\ last' = Call("clear", key)
    /\ hist' = [hist EXCEPT ![key] = <<>>]
    /\ UNCHANGED <<now, ticks, scrapeVars, syncVars, probe, route>>

ClearAll ==
    /\ store' = [k \in Keys |-> <<>>]
    /\ last' = Call("clearAll", CACHE_KEY)
    /\ hist' = [k \in Keys |-> <<>>]
    /\ UNCHANGED <<now, ticks, scrapeVars, syncVars, probe, route>>

\* Tick with a sweep that drops the entries the new time has expired
TickSweeping(d) ==
    /\ ticks < MaxTicks
    /\ now' = now + d
    /\ ticks' = ticks + 1
    /\ store' = [k \in Keys |->
                    IF store[k] # <<>> /\ now + d > store[k][1].expiresAt
                    THEN <<>> ELSE store[k]]
    /\ UNCHANGED <<last, hist, scrapeVars, syncVars, probe, route>>

\* time passes between two calls
Tick(d) ==
    /\ ticks < MaxTicks
    /\ now' = now + d
    /\ ticks' = ticks + 1
    /\ UNCHANGED <<store, last, hist, scrapeVars, syncVars, probe, route>>

(***************************************************************************)
(* The sync job (src/unnamed/part_000:40-137, the same code at             *)
(* src/lib/arcgis-client.ts:235-332): scrape, insert every record with one *)
(* POST each, count the table, answer.  A fetch that rejects is caught by  *)
(* the handler's outer try/catch, which answers SYNC_FAILED.               *)
(***************************************************************************)
batchSize == 100

MaxRecords == 3

\* the events scrapeStockingData may hand to the job
SyncEvents ==
    { [date |-> "2024-03-15", waterBody |-> "Big Creek", county |-> "Bath",
       species |-> "Brown Trout", category |-> "A", numberOfFish |-> <<500>>],
      [date |-> "2024-03-16T00:00:00", waterBody |-> "Mill Run", county |-> "",
       species |-> "Unknown", category |-> "", numberOfFish |-> <<0>>] }

SyncEventLists == UNION {[1..n -> SyncEvents] : n \in 0..MaxRecords}

\* event.date.split('T')[0]
DatePart(date) ==
    IF IndexOf(date, "T") = -1 THEN date
    ELSE SubSeq(date, 1, IndexOf(date, "T"))

\* events.map(event => ({...})): x || null is null for "" and for 0
ToDbRecord(event) ==
    [stocking_date |-> DatePart(event.date),
     location |-> event.waterBody,
     county |-> event.county,
     species |-> event.species,
     size |-> IF event.category = "" THEN <<>> ELSE <<event.category>>,
     number_of_fish |-> IF event.numberOfFish \in {<<>>, <<0>>} THEN <<>>
                        ELSE event.numberOfFish]

\* what the database may answer to an insert
InsertResponses ==
    { [ok |-> TRUE, text |-> "[]"],
      [ok |-> FALSE, text |-> "{\"code\":\"23505\"}"],
      [ok |-> FALSE, text |-> "duplicate key value violates unique constraint"],
      [ok |-> FALSE, text |-> "permission denied"] }

IsDuplicateError(errorText) ==
    Includes(errorText, "23505") \/ Includes(errorText, "duplicate key")

\* an outcome test that takes every refusal for a success
InsertOutcomeLenient(response) ==
    IF response.ok \/ IsDuplicateError(response.text) THEN "accepted"
    ELSE "rejected"

InsertOutcome(response) ==
    IF response.ok THEN "accepted"
    ELSE IF IsDuplicateError(response.text) THEN "duplicate" ELSE "rejected"

\* the content-range header of the count response, and the text parseInt gets
\* (none of them has a second "/")
CountHeaders == {<<>>, <<"0-2/3">>, <<"*">>, <<"*/">>}

\* countResponse.headers.get('content-range')?.split('/')[1] || '0'
TotalText(header) ==
    IF header = <<>> \/ IndexOf(header[1], "/") = -1 THEN "0"
    ELSE IF IndexOf(header[1], "/") + 1 = Len(header[1]) THEN "0"
    ELSE SubSeq(header[1], IndexOf(header[1], "/") + 2, Len(header[1]))

SyncFailed == [success |-> FALSE, code |-> "SYNC_FAILED"]

\* the record the inner loop is at
CurrentRecord == dbRecords[batchStart + offset + 1]

\* batch = dbRecords.slice(i, i + batchSize)
BatchLen ==
    IF Len(dbRecords) - batchStart < batchSize THEN Len(dbRecords) - batchStart
    ELSE batchSize

\* the two loop headers after the body ran for the current record
Advance ==
    IF offset + 1 < BatchLen
    THEN /\ offset' = offset + 1
         /\ UNCHANGED <<batchStart, syncPc>>
    ELSE /\ offset' = 0
         /\ batchStart' = batchStart + batchSize
         /\ syncPc' = IF batchStart + batchSize < Len(dbRecords)
                      THEN "inserting" ELSE "counting"

\* scrapeStockingData returned evs
SyncStart(evs) ==
    /\ syncPc = "idle"
    /\ dbRecords' = [k \in 1..Len(evs) |-> ToDbRecord(evs[k])] @@ <<>>
    /\ newRecords' = 0
    /\ duplicates' = 0
    /\ batchStart' = 0
    /\ offset' = 0
    /\ syncPc' = IF Len(evs) > 0 THEN "inserting" ELSE "counting"
    /\ syncRuns' = Append(syncRuns, [records |-> dbRecords', stored |-> dbTable,
                                     base |-> Len(attempts)])
    /\ UNCHANGED <<attempts, syncResult, dbTable, scrapeVars, cacheVars, probe, route>>

\* scrapeStockingData raised
SyncScrapeFails ==
    /\ syncPc = "idle"
    /\ syncPc' = "failed"
    /\ syncResult' = <<SyncFailed>>
    /\ UNCHANGED <<dbRecords, batchStart, offset, attempts, newRecords, duplicates,
                   dbTable, syncRuns, scrapeVars, cacheVars, probe, route>>

\* one pass of the record loop: the POST was answered
Insert(response) ==
    /\ syncPc = "inserting"
    /\ attempts' = Append(attempts, [record |-> CurrentRecord,
                                     outcome |-> InsertOutcome(response)])
    /\ newRecords' = IF InsertOutcome(response) = "accepted"
                     THEN newRecords + 1 ELSE newRecords
    /\ duplicates' = IF InsertOutcome(response) = "duplicate"
                     THEN duplicates + 1 ELSE duplicates
    /\ dbTable' = IF response.ok THEN dbTable \cup {CurrentRecord} ELSE dbTable
    /\ Advance
    /\ UNCHANGED <<dbRecords, syncResult, syncRuns, scrapeVars, cacheVars, probe, route>>

\* one pass of the record loop: the POST (or reading its body) rejected
InsertThrows ==
    /\ syncPc = "inserting"
    /\ attempts' = Append(attempts, [record |-> CurrentRecord, outcome |-> "threw"])
    /\ syncPc' = "failed"
    /\ syncResult' = <<SyncFailed>>
    /\ UNCHANGED <<dbRecords, batchStart, offset, newRecords, duplicates,
                   dbTable, syncRuns, scrapeVars, cacheVars, probe, route>>

\* the HEAD count request was answered; the job answers
Count(header) ==
    /\ syncPc = "counting"
    /\ syncPc' = "done"
    /\ syncResult' = <<[success |-> TRUE,
                        scrapedEvents |-> Len(dbRecords),
                        newRecords |-> newRecords,
                        duplicates |-> duplicates,
                        totalRecords |-> ParseInt(TotalText(header))]>>
    /\ UNCHANGED <<dbRecords, batchStart, offset, attempts, newRecords, duplicates,
                   dbTable, syncRuns, scrapeVars, cacheVars, probe, route>>

\* the HEAD count request rejected
CountThrows ==
    /\ syncPc = "counting"
    /\ syncPc' = "failed"
    /\ syncResult' = <<SyncFailed>>
    /\ UNCHANGED <<dbRecords, batchStart, offset, attempts, newRecords, duplicates,
                   dbTable, syncRuns, scrapeVars, cacheVars, probe, route>>

(***************************************************************************)
(* The table trout_stocking_events behind the sync job, with its unique    *)
(* index unique_stocking_event on (stocking_date, location, species)       *)
(* (src/COMPLETE_SUMMARY.md:142-161), and the job invoked again and again  *)
(* (the cron schedule, src/unnamed/part_007:125-132).                      *)
(***************************************************************************)
MaxRuns == 2        \* runs of the sync job per behaviour

\* the columns of the unique index
Key(record) == <<record.stocking_date, record.location, record.species>>

BigCreek ==
    [date |-> "2024-03-15T00:00:00.000Z", waterBody |-> "Big Creek",
     county |-> "Bath", species |-> "Brown Trout", category |-> "A",
     numberOfFish |-> <<500>>]

\* the same water, day and species once more, on another row of the page
BigCreekAgain ==
    [date |-> "2024-03-15T00:00:00.000Z", waterBody |-> "Big Creek",
     county |-> "Highland", species |-> "Brown Trout", category |-> "B",
     numberOfFish |-> <<200>>]

MillRun ==
    [date |-> "2024-03-16T00:00:00.000Z", waterBody |-> "Mill Run",
     county |-> "Bath", species |-> "Rainbow Trout", category |-> "",
     numberOfFish |-> <<>>]

\* the pages the job may scrape
DbPages == {<<BigCreek, MillRun>>, <<BigCreek, BigCreekAgain>>}

\* what the database may answer to the insert of record: the unique index
\* refuses a key that is stored, any other refusal may happen at any time
DbAnswers(record) ==
    {[ok |-> FALSE, text |-> "permission denied"]} \cup
    (IF \E row \in dbTable : Key(row) = Key(record)
     THEN {[ok |-> FALSE, text |-> "{\"code\":\"23505\"}"]}
     ELSE {[ok |-> TRUE, text |-> "[]"]})

\* one pass of the record loop against the table with the unique index
InsertChecked(response) ==
    /\ syncPc = "inserting"
    /\ response \in DbAnswers(CurrentRecord)
    /\ Insert(response)

\* the count request answered by the table: content-range "*/<rows>"
CountRows == Count(<<"*/" \o ToString(Cardinality(dbTable))>>)

\* the job is invoked again: the handler starts with fresh locals
SyncAgain ==
    /\ syncPc \in {"done", "failed"}
    /\ Len(syncRuns) < MaxRuns
    /\ syncPc' = "idle"
    /\ syncResult' = <<>>
    /\ UNCHANGED <<dbRecords, batchStart, offset, attempts, newRecords, duplicates,
                   dbTable, syncRuns, scrapeVars, cacheVars, probe, route>>

(***************************************************************************)
(* Calls of the pure helpers.  probe records the last call: the helper,    *)
(* its arguments and what it returned.                                     *)
(***************************************************************************)
MaxParts == 2
MaxText == 3
MaxEvents == 2

\* texts for normalizeSpecies: the five species as bare word and as
\* "word trout", in lower case, capitalised and in upper case with blanks
\* around them, and texts that are no species
SpeciesWords == {"rainbow", "brown", "brook", "golden", "tiger"}

Capitalised ==
    [w \in SpeciesWords |->
        CASE w = "rainbow" -> "Rainbow" [] w = "brown" -> "Brown"
          [] w = "brook" -> "Brook" [] w = "golden" -> "Golden"
          [] OTHER -> "Tiger"]

UpperCased ==
    [w \in SpeciesWords |->
        CASE w = "rainbow" -> "RAINBOW" [] w = "brown" -> "BROWN"
          [] w = "brook" -> "BROOK" [] w = "golden" -> "GOLDEN"
          [] OTHER -> "TIGER"]

SpeciesTexts ==
    UNION { {w, w \o " trout", Capitalised[w], Capitalised[w] \o " Trout",
             " " \o UpperCased[w] \o "\t", UpperCased[w] \o " TROUT "}
            : w \in SpeciesWords }
    \cup {"", " ", "Unknown", "Catfish", " Catfish ", "trout", "Rainbow  Trout",
          "constructor", "__proto__"}

\* species cells: up to MaxParts pieces, separated by one delimiter or
\* written back to back; a cell arrives trimmed
CellPieces ==
    {"Rainbow", "brown trout", "Brook Trout", "Tiger Trout", "Golden Trout",
     "Unknown", "", " ", "Catfish"}

RECURSIVE CellsOf(_)
CellsOf(n) ==
    IF n = 1 THEN CellPieces
    ELSE {c \o d \o p : c \in CellsOf(n - 1), d \in Delimiters \cup {""},
                        p \in CellPieces}

SpeciesCells == {Trim(c) : c \in UNION {CellsOf(n) : n \in 1..MaxParts}}

\* texts of a pounds / number cell
NumberChars == {"1", "0", ",", "a", " "}

RECURSIVE TextsOf(_)
TextsOf(n) ==
    IF n = 0 THEN {""}
    ELSE {t \o c : t \in TextsOf(n - 1), c \in NumberChars}

NumberTexts ==
    UNION {TextsOf(n) : n \in 0..MaxText} \cup {"1,250 lbs", "500", "no fish"}

\* events to filter and the bounds of the range (<<>> is an omitted bound)
FilterDates ==
    {"2024-06-01T00:00:00.000Z", "2024-06-02T00:00:00.000Z",
     "2024-06-03T00:00:00.000Z"}

FilterEvents == {[id |-> ToLowerCase(d), date |-> d] : d \in FilterDates}

FilterLists == UNION {[1..n -> FilterEvents] : n \in 0..MaxEvents}

FilterBounds ==
    {<<>>, <<"">>, <<"2024-06-02">>, <<"2024-06-02T00:00:00.000Z">>,
     <<"2024-06-03T00:00:00.000Z">>}

\* the characters of the dates, in the order of their UTF-16 code units
CodeUnitOrder == "-.0123456789:TZ"

CodeUnitRank(c) == CHOOSE k \in 1..Len(CodeUnitOrder) : Char(CodeUnitOrder, k) = c

\* a < b on two strings that agree before position i
RECURSIVE LessFrom(_, _, _)
LessFrom(a, b, i) ==
    IF i > Len(b) THEN FALSE
    ELSE IF i > Len(a) THEN TRUE
    ELSE IF Char(a, i) = Char(b, i) THEN LessFrom(a, b, i + 1)
    ELSE CodeUnitRank(Char(a, i)) < CodeUnitRank(Char(b, i))

\* the < of JavaScript on two strings
StringLess(a, b) == LessFrom(a, b, 1)

\* an optional string used as a condition: undefined and "" are falsy
Truthy(opt) == opt # <<>> /\ opt[1] # ""

\* a bound that judges every date by <=, where the code uses <
filterEventsInside(evs, startDate, endDate) ==
    SelectSeq(evs, LAMBDA event :
        /\ ~(Truthy(startDate) /\ ~StringLess(startDate[1], event.date))
        /\ ~(Truthy(endDate) /\ ~StringLess(event.date, endDate[1])))

filterEventsByDateRange(evs, startDate, endDate) ==
    SelectSeq(evs, LAMBDA event :
        /\ ~(Truthy(startDate) /\ StringLess(event.date, startDate[1]))
        /\ ~(Truthy(endDate) /\ StringLess(endDate[1], event.date)))

\* typeof normalizeSpecies(species) === 'string'
ReturnsString(v, species) ==
    Only({ (normalized \notin InheritedKeys \/ normalized \in DOMAIN SpeciesMap(v))
           : normalized \in {ToLowerCase(Trim(species))} })

\* a call that has been given its arguments and has not run yet
Pending(fn, variantOf, arg) ==
    [fn |-> fn, called |-> FALSE, variant |-> variantOf, arg |-> arg]

IsPending(fn) == probe.fn = fn /\ ~probe.called

CallNormalizeSpecies ==
    /\ IsPending("normalizeSpecies")
    /\ probe' = [fn |-> probe.fn, called |-> TRUE, variant |-> probe.variant,
                 arg |-> probe.arg,
                 result |-> normalizeSpecies(probe.variant, probe.arg),
                 isString |-> ReturnsString(probe.variant, probe.arg),
                 \* the helper applied to its own result: species.trim()
                 \* throws unless species is a string
                 again |-> IF ReturnsString(probe.variant, probe.arg)
                           THEN <<normalizeSpecies(probe.variant,
                                     normalizeSpecies(probe.variant, probe.arg))>>
                           ELSE <<>>]
    /\ UNCHANGED <<scrapeVars, cacheVars, syncVars, route>>

\* the species of an event of the regex copy with parseSpeciesString
CallParseSpeciesString ==
    /\ IsPending("parseSpeciesString")
    /\ probe' = Only({ [fn |-> probe.fn, called |-> TRUE, variant |-> probe.variant,
                        arg |-> probe.arg, list |-> speciesList,
                        species |-> IF Len(speciesList) > 0
                                    THEN Join(speciesList, " + ") ELSE "Unknown"]
                       : speciesList \in {parseSpeciesString(probe.variant,
                                                             <<probe.arg>>)} })
    /\ UNCHANGED <<scrapeVars, cacheVars, syncVars, route>>

\* the species of an event of the copies that split the cell
CallSplitSpecies ==
    /\ IsPending("splitSpecies")
    /\ probe' = Only({ [fn |-> probe.fn, called |-> TRUE, variant |-> probe.variant,
                        arg |-> probe.arg, list |-> speciesList,
                        species |-> IF Join(speciesList, " + ") = "" THEN "Unknown"
                                    ELSE Join(speciesList, " + ")]
                       : speciesList \in {SplitList(probe.variant, probe.arg)} })
    /\ UNCHANGED <<scrapeVars, cacheVars, syncVars, route>>

CallExtractNumber ==
    /\ IsPending("extractNumber")
    /\ probe' = [fn |-> probe.fn, called |-> TRUE, variant |-> probe.variant,
                 arg |-> probe.arg, result |-> extractNumber(probe.arg)]
    /\ UNCHANGED <<scrapeVars, cacheVars, syncVars, route>>

\* arg is <<events, startDate, endDate>>
CallFilter ==
    /\ IsPending("filterEventsByDateRange")
    /\ probe' = [fn |-> probe.fn, called |-> TRUE, variant |-> probe.variant,
                 arg |-> probe.arg,
                 result |-> filterEventsByDateRange(probe.arg[1], probe.arg[2],
                                                    probe.arg[3])]
    /\ UNCHANGED <<scrapeVars, cacheVars, syncVars, route>>

(***************************************************************************)
(* The stocking-data route (src/app/api/stocking-data/route.ts).  Requests *)
(* run on one thread: the code between two awaits is one step, and the     *)
(* only await of a handler is the scrape.  route[r] is the r-th request    *)
(* that began.                                                             *)
(***************************************************************************)
MaxRequests == 2

DatedEvent(d) == [id |-> ToLowerCase(d), date |-> d]

\* the lists a successful scrape may return
RouteScrapes ==
    { <<>>,
      <<DatedEvent("2024-06-01T00:00:00.000Z"), DatedEvent("2024-06-03T00:00:00.000Z")>> }

MaxRouteTicks == 1

\* by how much the clock moves between two steps of the route: enough for
\* an entry stored before to expire
RouteDeltas == {defaultTTL + 1}

\* the query strings of a GET: refresh=true or not, startDate and endDate as
\* searchParams.get returns them (<<>> is null)
Queries ==
    { [refresh |-> FALSE, startDate |-> <<>>, endDate |-> <<>>],
      [refresh |-> TRUE, startDate |-> <<"">>, endDate |-> <<"2024-06-02">>] }

NoQuery == [refresh |-> FALSE, startDate |-> <<>>, endDate |-> <<>>]

\* searchParams.get(name) || undefined
OrUndefined(param) == IF Truthy(param) THEN param ELSE <<>>

\* the number of steps the route has taken: requests begun and scrapes ended
Steps == Len(route) + Cardinality({r \in 1..Len(route) : route[r].scrape # <<>>})

\* how the scrape of a request ended, when, and as which step of the route
Ended(ok, evs) == <<[ok |-> ok, events |-> evs, at |-> now, step |-> Steps + 1]>>

\* a request that has begun: what it is, when and as which step it began,
\* what the cache held under the key when it arrived, whether it called the
\* scraper, how the scrape ended, and the response once it has answered
Request(method, query, scraped, response) ==
    [method |-> method, query |-> query, began |-> now, step |-> Steps + 1,
     found |-> Found(CACHE_KEY), entry |-> store[CACHE_KEY], scraped |-> scraped,
     phase |-> IF response = <<>> THEN "scraping" ELSE "done",
     scrape |-> <<>>, response |-> response]

\* the 200 response of GET: the events filtered, the cache status, the count
GetResponse(evs, query, st) ==
    Only({ [status |-> 200, success |-> TRUE, data |-> filteredEvents,
            cache |-> StatusIn(st, CACHE_KEY), count |-> Len(filteredEvents)]
           : filteredEvents \in
               { IF Truthy(query.startDate) \/ Truthy(query.endDate)
                 THEN filterEventsByDateRange(evs, OrUndefined(query.startDate),
                                              OrUndefined(query.endDate))
                 ELSE evs } })

PostResponse(evs) ==
    [status |-> 200, success |-> TRUE, message |-> "Cache refreshed successfully",
     count |-> Len(evs)]

\* the 500 responses of the two catch blocks
GetFailure == [status |-> 500, success |-> FALSE, data |-> <<>>, count |-> 0]
PostFailure == [status |-> 500, success |-> FALSE]

\* the map after cache.set(CACHE_KEY, events)
StoreWith(evs) == [store EXCEPT ![CACHE_KEY] = <<NewEntry(<<evs>>, <<>>)>>]

\* time passes between two steps of the route
RouteTick(d) ==
    /\ ticks < MaxRouteTicks
    /\ now' = now + d
    /\ ticks' = ticks + 1
    /\ UNCHANGED <<store, last, hist, route, scrapeVars, syncVars, probe>>

\* GET up to its first await or, on a cache hit, up to its response
GetBegin(query) ==
    /\ Len(route) < MaxRequests
    /\ \E cached \in {IF query.refresh THEN <<>> ELSE GetResult(CACHE_KEY)},
          st \in {IF query.refresh THEN store ELSE GetStore(CACHE_KEY)} :
          /\ store' = st
          /\ route' = Append(route,
                 IF cached = <<>> THEN Request("GET", query, TRUE, <<>>)
                 ELSE Request("GET", query, FALSE,
                              <<GetResponse(cached[1], query, st)>>))
    /\ UNCHANGED <<now, ticks, last, hist, scrapeVars, syncVars, probe>>

\* POST up to its await: it clears the key, then scrapes
PostBegin ==
    /\ Len(route) < MaxRequests
    /\ store' = [store EXCEPT ![CACHE_KEY] = <<>>]
    /\ route' = Append(route, Request("POST", NoQuery, TRUE, <<>>))
    /\ UNCHANGED <<now, ticks, last, hist, scrapeVars, syncVars, probe>>

\* ScrapeResolves without the write to the cache
ScrapeResolvesUnstored(r, evs) ==
    /\ r \in 1..Len(route)
    /\ route[r].phase = "scraping"
    /\ store' = store
    /\ route' = [route EXCEPT ![r].phase = "done", ![r].scrape = Ended(TRUE, evs),
                              ![r].response =
                                  IF route[r].method = "GET"
                                  THEN <<GetResponse(evs, route[r].query, store)>>
                                  ELSE <<PostResponse(evs)>>]
    /\ UNCHANGED <<now, ticks, last, hist, scrapeVars, syncVars, probe>>

\* ScrapeResolves with a set that appends to the list already stored
ScrapeResolvesMerging(r, evs) ==
    /\ r \in 1..Len(route)
    /\ route[r].phase = "scraping"
    /\ store' = IF store[CACHE_KEY] = <<>> THEN StoreWith(evs)
                ELSE StoreWith(store[CACHE_KEY][1].data[1] \o evs)
    /\ route' = [route EXCEPT ![r].phase = "done", ![r].scrape = Ended(TRUE, evs),
                              ![r].response =
                                  IF route[r].method = "GET"
                                  THEN <<GetResponse(evs, route[r].query, StoreWith(evs))>>
                                  ELSE <<PostResponse(evs)>>]
    /\ UNCHANGED <<now, ticks, last, hist, scrapeVars, syncVars, probe>>

\* the scrape of request r resolves with evs: the rest of the handler runs
ScrapeResolves(r, evs) ==
    /\ r \in 1..Len(route)
    /\ route[r].phase = "scraping"
    /\ store' = StoreWith(evs)
    /\ route' = [route EXCEPT ![r].phase = "done", ![r].scrape = Ended(TRUE, evs),
                              ![r].response =
                                  IF route[r].method = "GET"
                                  THEN <<GetResponse(evs, route[r].query, StoreWith(evs))>>
                                  ELSE <<PostResponse(evs)>>]
    /\ UNCHANGED <<now, ticks, last, hist, scrapeVars, syncVars, probe>>

\* ScrapeRejects with a catch block that caches an empty list
ScrapeRejectsStoring(r) ==
    /\ r \in 1..Len(route)
    /\ route[r].phase = "scraping"
    /\ store' = StoreWith(<<>>)
    /\ route' = [route EXCEPT ![r].phase = "done", ![r].scrape = Ended(FALSE, <<>>),
                              ![r].response =
                                  IF route[r].method = "GET" THEN <<GetFailure>>
                                  ELSE <<PostFailure>>]
    /\ UNCHANGED <<now, ticks, last, hist, scrapeVars, syncVars, probe>>

\* the scrape of request r rejects: the catch block answers
ScrapeRejects(r) ==
    /\ r \in 1..Len(route)
    /\ route[r].phase = "scraping"
    /\ route' = [route EXCEPT ![r].phase = "done", ![r].scrape = Ended(FALSE, <<>>),
                              ![r].response =
                                  IF route[r].method = "GET" THEN <<GetFailure>>
                                  ELSE <<PostFailure>>]
    /\ UNCHANGED <<cacheVars, scrapeVars, syncVars, probe>>

(***************************************************************************)
(* Specifications.                                                         *)
(***************************************************************************)
CacheIdle ==
    /\ store = [k \in Keys |-> <<>>]
    /\ now = 0
    /\ ticks = 0
    /\ last = [op |-> "none", key |-> CACHE_KEY, at |-> 0, found |-> "none", ttl |-> <<>>,
               data |-> <<>>, ret |-> <<>>, flag |-> FALSE, status |-> NoStatus]
    /\ hist = [k \in Keys |-> <<>>]

SyncIdle ==
    /\ syncPc = "idle"
    /\ dbRecords = <<>>
    /\ batchStart = 0
    /\ offset = 0
    /\ attempts = <<>>
    /\ newRecords = 0
    /\ duplicates = 0
    /\ syncResult = <<>>
    /\ dbTable = {}
    /\ syncRuns = <<>>

ProbeIdle == probe = [fn |-> "none", called |-> FALSE]

RouteIdle == route = <<>>

ScrapeIdle ==
    /\ variant = "lib"
    /\ pc = "start"
    /\ requests = <<>>
    /\ html = <<>>
    /\ events = <<>>
    /\ scanned = <<>>

\* one call of scrapeStockingData, of any of the four copies, on any page
ScrapeInit ==
    /\ variant \in Variants
    /\ pc = "start"
    /\ requests = <<>>
    /\ html = <<>>
    /\ events = <<>>
    /\ scanned = <<>>
    /\ CacheIdle
    /\ SyncIdle
    /\ ProbeIdle
    /\ RouteIdle

ScrapeNext ==
    \/ FetchOk
    \/ FetchFail
    \/ FallbackOk
    \/ FallbackFail

SpecScrape == ScrapeInit /\ [][ScrapeNext]_vars

\* the cache singleton under any sequence of calls and clock advances
CacheInit == ScrapeIdle /\ CacheIdle /\ SyncIdle /\ ProbeIdle /\ RouteIdle

CacheNext ==
    \/ \E k \in Keys, d \in DataValues, t \in TtlArgs : Set(k, d, t)
    \/ \E k \in Keys : Get(k)
    \/ \E k \in Keys : GetStatus(k)
    \/ \E k \in Keys : Has(k)
    \/ \E k \in Keys : Clear(k)
    \/ ClearAll
    \/ \E d \in TickDeltas : Tick(d)

SpecCache == CacheInit /\ [][CacheNext]_vars

\* the sync job alone
SyncInit == ScrapeIdle /\ CacheIdle /\ SyncIdle /\ ProbeIdle /\ RouteIdle

SyncNext ==
    \/ \E evs \in SyncEventLists : SyncStart(evs)
    \/ SyncScrapeFails
    \/ \E response \in InsertResponses : Insert(response)
    \/ InsertThrows
    \/ \E header \in CountHeaders : Count(header)
    \/ CountThrows

SpecSync == SyncInit /\ [][SyncNext]_vars

\* the sync job run repeatedly against the table with the unique index
DbInit == ScrapeIdle /\ CacheIdle /\ SyncIdle /\ ProbeIdle /\ RouteIdle

DbNext ==
    \/ \E evs \in DbPages : SyncStart(evs)
    \/ SyncScrapeFails
    \/ \E response \in InsertResponses : InsertChecked(response)
    \/ InsertThrows
    \/ CountRows
    \/ CountThrows
    \/ SyncAgain

SpecSyncDb == DbInit /\ [][DbNext]_vars

\* the pure helpers, each called once with arguments from bounded sets
HelperInit ==
    /\ ScrapeIdle /\ CacheIdle /\ SyncIdle /\ RouteIdle
    /\ \/ \E v \in {"lib", "range", "edge"}, species \in SpeciesTexts :
             probe = Pending("normalizeSpecies", v, species)
       \/ \E cell \in SpeciesCells : probe = Pending("parseSpeciesString", "edge", cell)
       \/ \E v \in {"range", "edgeSplit"}, cell \in SpeciesCells :
             probe = Pending("splitSpecies", v, cell)
       \/ \E v \in {"lib", "edge"}, text \in NumberTexts :
             probe = Pending("extractNumber", v, text)
       \/ \E v \in {"lib", "range"}, evs \in FilterLists,
             startDate \in FilterBounds, endDate \in FilterBounds :
             probe = Pending("filterEventsByDateRange", v, <<evs, startDate, endDate>>)

HelperNext ==
    \/ CallNormalizeSpecies
    \/ CallParseSpeciesString
    \/ CallSplitSpecies
    \/ CallExtractNumber
    \/ CallFilter

SpecHelpers == HelperInit /\ [][HelperNext]_vars

\* the route with its cache: requests begin, scrapes end and time passes, in
\* any order
RouteInit == ScrapeIdle /\ CacheIdle /\ SyncIdle /\ ProbeIdle /\ RouteIdle

RouteNext ==
    \/ \E query \in Queries : GetBegin(query)
    \/ PostBegin
    \/ \E r \in 1..MaxRequests, evs \in RouteScrapes : ScrapeResolves(r, evs)
    \/ \E r \in 1..MaxRequests : ScrapeRejects(r)
    \/ \E d \in RouteDeltas : RouteTick(d)

SpecRoute == RouteInit /\ [][RouteNext]_vars

(***************************************************************************)
(* Properties of the scrapers, checked under SpecScrape.                   *)
(***************************************************************************)
\* the page the scrape parsed (defined once html is present)
Page == html[1]

Range(seq) == {seq[k] : k \in 1..Len(seq)}

\* the trimmed text the row body reads for a field of row i, if the row has it
CellOf(idx, table, i, field) == TrimmedAt(DataCells(table[i + 1]), idx[field])

\* row i has a non-empty waterBody cell and a date cell parseDate accepts
Populated(idx, table, i) ==
    /\ CellOf(idx, table, i, "date") # <<>>
    /\ CellOf(idx, table, i, "waterBody") # <<>>
    /\ CellOf(idx, table, i, "waterBody")[1] # ""
    /\ parseDate(CellOf(idx, table, i, "date")[1]) # <<>>

\* what an event made from a populated row i must carry
RowSource(idx, table, i) ==
    Only({ [waterBody |-> waterBody, date |-> date, id |-> EventId(waterBody, date, i)]
           : waterBody \in {CellOf(idx, table, i, "waterBody")[1]},
             date \in {parseDate(CellOf(idx, table, i, "date")[1])[1]} })

\* the positions of the populated rows of a table, in row order
PopulatedRows(v, table) ==
    IF Len(table) < 2 THEN <<>>
    ELSE Only({ SelectSeq([i \in 1..(Len(table) - 1) |-> i] @@ <<>>,
                          LAMBDA i : Populated(idx, table, i))
                : idx \in {ColumnIndices(v, table)} })

\* RowSource of the populated rows, in row order, for every copy and table of
\* the model's pages
SourcesOf ==
    [p \in Variants \X ModelTables |->
        Only({ [k \in 1..Len(rows) |-> RowSource(idx, p[2], rows[k])] @@ <<>>
               : rows \in {PopulatedRows(p[1], p[2])},
                 idx \in {IF Len(p[2]) < 2 THEN <<>> ELSE ColumnIndices(p[1], p[2])} })] @@ <<>>

\* the waterBody, date and id of an event
Core(e) == [waterBody |-> e.waterBody, date |-> e.date, id |-> e.id]

\* the ISO-8601 texts parseDate can return
IsoDates == {KnownDates[d] : d \in DOMAIN KnownDates}

\* the field's column of the table resolves to a header index
Resolves(v, table, field) ==
    /\ Len(table) > 0
    /\ Len(HeaderCells(table)) > 0
    /\ ColumnIndices(v, table)[field] # -1

\* the required columns that resolve, for every copy and table of the model's pages
ResolvedOf ==
    [p \in Variants \X ModelTables |->
        {f \in {"date", "waterBody"} : Resolves(p[1], p[2], f)}] @@ <<>>

\* <<waterBody, date>> of a list of events or row sources
Pairs(list) == [k \in 1..Len(list) |-> <<list[k].waterBody, list[k].date>>] @@ <<>>

\* what the body of the row loop does with row i of a table
OutcomeAt(v, table, i) == RowOutcome(v, ColumnIndices(v, table), table[i + 1], i)

\* the events of the rows of a table whose body reaches events.push
Yield(v, table) ==
    LET rows == SelectSeq([i \in 1..(Len(table) - 1) |-> i] @@ <<>>,
                          LAMBDA i : OutcomeAt(v, table, i).kind = "event")
    IN  [k \in 1..Len(rows) |-> OutcomeAt(v, table, rows[k]).event] @@ <<>>

\* some row of the table makes the row body throw
Raising(v, table) ==
    \E i \in 1..(Len(table) - 1) : OutcomeAt(v, table, i).kind = "throw"

\* the positions of the viable tables of the page that yield an event
Yielding ==
    {t \in 1..Len(Page) : /\ ResolvedOf[<<variant, Page[t]>>] = {"date", "waterBody"}
                          /\ Len(Yield(variant, Page[t])) > 0}

FirstYielding == CHOOSE t \in Yielding : \A u \in Yielding : t <= u

\* the list the scan returns if it stops at the first yielding table
FirstYield == IF Yielding = {} THEN <<>> ELSE Yield(variant, Page[FirstYielding])

\* C1: every returned event has a non-empty waterBody and a date that is an
\* ISO-8601 result of parseDate, and it stems from a row of the page whose
\* waterBody cell is non-empty and whose date cell parses: a row whose date or
\* waterBody cell is empty, missing or unparseable produces no event.
C1_EventsWellFormed ==
    \A k \in 1..Len(events) :
        /\ events[k].waterBody # ""
        /\ events[k].date \in IsoDates
        /\ \E t \in 1..Len(Page) : Core(events[k]) \in Range(SourcesOf[<<variant, Page[t]>>])

\* a scanned table of two rows gave one event: the other row, which is not
\* populated, was dropped
C1_Witness ==
    /\ pc = "done"
    /\ Len(events) = 1
    /\ \E t \in Range(scanned) :
          /\ Len(Page[t]) = 3
          /\ Len(SourcesOf[<<variant, Page[t]>>]) < 2

\* C2: in the table the scraper selects (the last one whose rows it read),
\* every row with a non-empty waterBody cell and a date cell parseDate accepts
\* yields exactly one event with that waterBody and ISO date, whatever its
\* other cells contain or lack, and the other rows yield none.
C2_PopulatedRowsYield ==
    (html # <<>> /\ scanned # <<>>) =>
        /\ pc = "done"
        /\ Pairs(events) = Pairs(SourcesOf[<<variant, Page[scanned[Len(scanned)]]>>])

\* C3: the scan stops at the first table in document order that is viable and
\* yields an event: the returned events are that table's, no later table is
\* read, and every viable table before it (yielding nothing) was read and
\* passed over.
C3_FirstYieldingTable ==
    html # <<>> =>
        /\ pc = "done"
        /\ events = FirstYield
        /\ Range(scanned) =
              {t \in 1..Len(Page) : /\ Viable(variant, Page[t])
                                    /\ (Yielding # {} => t <= FirstYielding)}

\* C4: the rows of a table are read only if both its date column and its
\* waterBody column resolve to header indices; a table lacking either
\* contributes no event, so on a page of two tables whose first has no date
\* column and whose second has both, the first is never read and every event
\* stems from a row of the second.
C4_OnlyViableTablesRead ==
    html # <<>> =>
        /\ \A t \in Range(scanned) : ResolvedOf[<<variant, Page[t]>>] = {"date", "waterBody"}
        /\ \A k \in 1..Len(events) : \E t \in 1..Len(Page) :
              /\ ResolvedOf[<<variant, Page[t]>>] = {"date", "waterBody"}
              /\ Core(events[k]) \in Range(SourcesOf[<<variant, Page[t]>>])
        /\ ( /\ Len(Page) = 2
             /\ "date" \notin ResolvedOf[<<variant, Page[1]>>]
             /\ ResolvedOf[<<variant, Page[2]>>] = {"date", "waterBody"} )
           => /\ 1 \notin Range(scanned)
              /\ \A k \in 1..Len(events) :
                    Core(events[k]) \in Range(SourcesOf[<<variant, Page[2]>>])

\* the first of two tables has a data row but no date column; the second was
\* read and gave the events
C4_Witness ==
    /\ pc = "done"
    /\ Len(Page) = 2
    /\ Len(Page[1]) > 1
    /\ "date" \notin ResolvedOf[<<variant, Page[1]>>]
    /\ scanned = <<2>>
    /\ Len(events) > 0

\* C5: the scrape returns a list or raises, never both, and it raises only
\* when no HTML body could be obtained: once the body is there, no page
\* content makes it raise.
C5_RaisesOnlyOnTransport ==
    pc = "failed" => (html = <<>> /\ events = <<>>)

\* C6: a date-ranged scrape issues at most two GETs, the ranged one first and,
\* only after that one failed, one plain GET; it fails on transport only after
\* the plain GET failed too, and no request is repeated after parsing.
C6_FallbackOnce ==
    FirstRequest(variant) = "ranged" =>
        /\ Len(requests) <= 2
        /\ Len(requests) >= 1 => requests[1] = "ranged"
        /\ Len(requests) = 2 => requests[2] = "plain"
        /\ pc = "fallback" => requests = <<"ranged">>
        /\ (pc = "failed" /\ html = <<>>) => requests = <<"ranged", "plain">>

\* C7: when the body of the row loop throws on a row of a table that is read,
\* the row alone is lost: the scrape still completes and returns the events of
\* the first yielding table, made from the rows that do not throw.
C7_RowErrorConfined ==
    (html # <<>> /\ \E t \in Range(scanned) : Raising(variant, Page[t])) =>
        /\ pc = "done"
        /\ events = FirstYield

(***************************************************************************)
(* Properties of the cache, checked under SpecCache.  hist[k] is the last  *)
(* set(k, ...) not followed by a clear of k.                               *)
(***************************************************************************)
\* the lifetime callers are told set(key, data, ttl) gives an entry
StatedTtl(ttl) == IF ttl = <<>> THEN defaultTTL ELSE ttl[1]

\* C8: a get(k) after set(k, v, ttl), with no set or clear of k in between,
\* returns v while the ttl has not elapsed; once it has elapsed get(k) returns
\* absent and getStatus(k) reports isCached = false.
C8_RoundTrip ==
    \A k \in Keys :
        (hist[k] # <<>> /\ last.key = k) =>
            LET deadline == hist[k][1].at + StatedTtl(hist[k][1].ttl)
            IN  /\ (last.op = "get" /\ last.at < deadline) => last.ret = hist[k][1].data
                /\ (last.op = "get" /\ last.at > deadline) => last.ret = <<>>
                /\ (last.op = "getStatus" /\ last.at > deadline) => ~last.status.isCached

\* C9: get(k) returns the stored value exactly when an entry for k exists and
\* now <= expiresAt, leaving the store unchanged; with now > expiresAt it
\* returns absent and removes the entry; on a missing key it returns absent
\* and leaves the store unchanged.
C9_GetExact ==
    [][\A k \in Keys :
          Get(k) =>
              /\ (store[k] # <<>> /\ now <= store[k][1].expiresAt) =>
                    (last'.ret = store[k][1].data /\ store' = store)
              /\ (store[k] # <<>> /\ now > store[k][1].expiresAt) =>
                    (last'.ret = <<>> /\ store' = [store EXCEPT ![k] = <<>>])
              /\ store[k] = <<>> => (last'.ret = <<>> /\ store' = store)]_vars

\* a get hit its entry at the very instant now = expiresAt, after the clock
\* had moved
C9_Witness ==
    /\ last.op = "get"
    /\ last.at = now
    /\ now > 0
    /\ store[last.key] # <<>>
    /\ store[last.key][1].expiresAt = now
    /\ last.ret = store[last.key][1].data
    /\ last.ret # <<>>

\* C10: set(key, value, ttl) stores an entry with timestamp = now and
\* expiresAt = now + ttl for every ttl supplied, zero included, and
\* expiresAt = now + 3,600,000 when ttl is omitted.
C10_SetExpiry ==
    last.op = "set" =>
        store[last.key] = <<[data |-> last.data,
                             timestamp |-> last.at,
                             expiresAt |-> last.at + StatedTtl(last.ttl)]>>

\* C11: a set over an existing entry replaces it unconditionally, also when
\* that entry had expired without being evicted: the entry then stored has the
\* data, the timestamp and the expiry of the second set, and a get of the key
\* within that lifetime returns the data of the latest set, never older data.
C11_SetReplaces ==
    /\ last.op = "set" =>
          /\ store[last.key] # <<>>
          /\ store[last.key][1].data = last.data
          /\ store[last.key][1].timestamp = last.at
          /\ store[last.key][1].expiresAt - last.at = EffectiveTtl(last.ttl)
    /\ \A k \in Keys :
          ( /\ last.op = "get" /\ last.key = k /\ hist[k] # <<>>
            /\ last.at <= hist[k][1].at + EffectiveTtl(hist[k][1].ttl) )
          => last.ret = hist[k][1].data

\* a set has just replaced an entry that had expired and was still stored
C11_Witness ==
    /\ last.op = "set"
    /\ last.found = "expired"
    /\ last.at = now
    /\ store[last.key] # <<>>
    /\ store[last.key][1].timestamp = now

\* C12: getStatus(k) reports isCached = true exactly when an unexpired entry
\* for k is stored; then lastUpdated is the entry's timestamp, expiresAt its
\* expiry, age = now - timestamp with 0 <= age <= ttl of the set that made
\* it, and the entry is left as it was; otherwise it reports isCached = false
\* with no other field and no entry is left under k.
C12_StatusExact ==
    \A k \in Keys :
        (last.op = "getStatus" /\ last.key = k) =>
            /\ last.status.isCached = (last.found = "live")
            /\ last.found = "live" =>
                  /\ hist[k] # <<>>
                  /\ store[k] = <<[data |-> hist[k][1].data,
                                   timestamp |-> hist[k][1].at,
                                   expiresAt |-> store[k][1].expiresAt]>>
                  /\ last.status.lastUpdated = <<ToISOString(store[k][1].timestamp)>>
                  /\ last.status.expiresAt = <<ToISOString(store[k][1].expiresAt)>>
                  /\ last.status.age = <<last.at - store[k][1].timestamp>>
                  /\ last.status.age[1] >= 0
                  /\ last.status.age[1] <= StatedTtl(hist[k][1].ttl)
            /\ last.found # "live" => (last.status = NoStatus /\ store[k] = <<>>)

\* C13: from a clear(k) or clearAll() until the next set(k), nothing is stored
\* under k, get(k) returns absent and getStatus(k) reports isCached = false;
\* clear(k) leaves the entries of the other keys as they are (and the whole
\* store when k was not stored); clearAll() leaves no entry.
C13_ClearFrame ==
    /\ [](\A k \in Keys :
            hist[k] = <<>> =>
                /\ store[k] = <<>>
                /\ (last.op = "get" /\ last.key = k) => last.ret = <<>>
                /\ (last.op = "getStatus" /\ last.key = k) => ~last.status.isCached)
    /\ [][ /\ \A k \in Keys : Clear(k) => store' = [store EXCEPT ![k] = <<>>]
           /\ ClearAll => \A k \in Keys : store'[k] = <<>> ]_vars

\* a clear has just removed a live entry while another key keeps its entry
C13_Witness ==
    /\ last.op = "clear"
    /\ last.found = "live"
    /\ store[last.key] = <<>>
    /\ \E j \in Keys \ {last.key} : store[j] # <<>>

\* C14: has(k) returns true exactly when an unexpired entry is stored under k,
\* whatever its value, and false otherwise; an expired entry is evicted.
C14_HasExact ==
    last.op = "has" =>
        /\ last.flag = (last.found = "live")
        /\ last.found = "expired" => store[last.key] = <<>>

(***************************************************************************)
(* Properties of the sync job, checked under SpecSync.                     *)
(***************************************************************************)
OutcomeCount(outcome) == Cardinality({k \in 1..Len(attempts) : attempts[k].outcome = outcome})

\* C15: once the sync job has ended after a scrape, every scraped record got
\* exactly one insert attempt, in scrape order (the attempts are, record for
\* record, the scraped records), whatever the inserts answered; before that
\* the attempts are a prefix of the records; and a job that completed reports
\* newRecords = the accepted inserts, duplicates = the inserts rejected as
\* duplicate key, with newRecords + duplicates <= scrapedEvents.
C15_EveryRecordAttempted ==
    /\ Len(attempts) <= Len(dbRecords)
    /\ \A k \in 1..Len(attempts) : attempts[k].record = dbRecords[k]
    /\ syncPc \in {"counting", "done", "failed"} => Len(attempts) = Len(dbRecords)
    /\ syncPc = "done" =>
          /\ syncResult[1].success
          /\ syncResult[1].newRecords = OutcomeCount("accepted")
          /\ syncResult[1].duplicates = OutcomeCount("duplicate")
          /\ syncResult[1].newRecords + syncResult[1].duplicates
                <= syncResult[1].scrapedEvents

(***************************************************************************)
(* Properties of the pure helpers, checked under SpecHelpers.              *)
(***************************************************************************)
HasDelimiter(cell) == \E d \in Delimiters : Includes(cell, d)

\* the normalized form of each part of a delimited cell, in the cell's order
NormalizedParts(v, cell) ==
    Only({ [k \in 1..Len(parts) |-> normalizeSpecies(v, Trim(parts[k]))] @@ <<>>
           : parts \in {SplitDelims(cell)} })

\* seq without the entries that repeat an earlier entry
FirstOccurrences(seq) ==
    LET keep == {k \in 1..Len(seq) : \A j \in 1..(k - 1) : seq[j] # seq[k]}
        nth(i) == CHOOSE k \in keep : Cardinality({j \in keep : j < k}) = i - 1
    IN  [i \in 1..Cardinality(keep) |-> seq[nth(i)]] @@ <<>>

NoDuplicate(seq) == \A i, j \in 1..Len(seq) : seq[i] = seq[j] => i = j

\* C16: for a species cell that contains '+', '/' or ',', the multi-species
\* parser returns the normalized parts in order of first occurrence, with no
\* duplicate entry, no empty entry and no "Unknown" entry, and the event's
\* species is these entries joined by " + ", or "Unknown" when there is none.
C16_DelimitedSpecies ==
    ( /\ probe.called
      /\ probe.fn \in {"parseSpeciesString", "splitSpecies"}
      /\ HasDelimiter(probe.arg) )
    => /\ NoDuplicate(probe.list)
       /\ \A k \in 1..Len(probe.list) : probe.list[k] \notin {"", "Unknown"}
       /\ probe.list =
             FirstOccurrences(SelectSeq(NormalizedParts(probe.variant, probe.arg),
                                        LAMBDA s : s \notin {"", "Unknown"}))
       /\ probe.species = IF probe.list = <<>> THEN "Unknown"
                          ELSE Join(probe.list, " + ")

\* the canonical names that occur in a text
Occurring(text) == {name \in Range(validSpecies) : Includes(text, name)}

\* C17: for a species cell without a delimiter, parseSpeciesString returns
\* each canonical name that occurs in the text exactly once, in the order of
\* a scan that goes from the longest name to the shortest; only when no
\* canonical name occurs it returns the whole cell normalized as one token;
\* an empty cell or "Unknown" gives the empty list, displayed as "Unknown".
C17_UndelimitedSpecies ==
    ( /\ probe.called
      /\ probe.fn = "parseSpeciesString"
      /\ ~HasDelimiter(probe.arg) )
    => /\ probe.arg \in {"", "Unknown"} =>
             probe.list = <<>> /\ probe.species = "Unknown"
       /\ Occurring(probe.arg) # {} =>
             /\ Range(probe.list) = Occurring(probe.arg)
             /\ NoDuplicate(probe.list)
             /\ \A i, j \in 1..Len(probe.list) :
                   i < j => Len(probe.list[i]) >= Len(probe.list[j])
       /\ (Occurring(probe.arg) = {} /\ probe.arg \notin {"", "Unknown"}) =>
             probe.list = <<normalizeSpecies(probe.variant, probe.arg)>>

CanonicalName == [w \in SpeciesWords |-> Capitalised[w] \o " Trout"]

\* C18: normalizeSpecies returns a text for every text and applying it twice
\* gives what applying it once gives; each of the five species, as the bare
\* word or as "word trout", in any letter case and with any surrounding
\* whitespace, maps to its canonical name (so a canonical name maps to
\* itself); every other text is returned unchanged.
C18_NormalizeSpecies ==
    (probe.called /\ probe.fn = "normalizeSpecies")
    => /\ probe.isString
       /\ probe.again = <<probe.result>>
       /\ \A w \in SpeciesWords :
             ToLowerCase(Trim(probe.arg)) \in {w, w \o " trout"}
                => probe.result = CanonicalName[w]
       /\ ( \A w \in SpeciesWords :
               ToLowerCase(Trim(probe.arg)) \notin {w, w \o " trout"} )
             => probe.result = probe.arg

HasDigit(text) == \E i \in 1..Len(text) : IsDigit(Char(text, i))

IsAbsentOrNatural(n) ==
    n.kind = "undefined" \/ (n.kind = "number" /\ n.val \in Nat)

\* C19: extractNumber returns either nothing or a non-negative integer: the
\* first run of digits and commas with the commas removed ("1,250 lbs" gives
\* 1250), and nothing exactly when the text contains no digit; so pounds and
\* numberOfFish of every event are absent or non-negative integers.
C19_ExtractNumber ==
    /\ (probe.called /\ probe.fn = "extractNumber")
       => /\ IsAbsentOrNatural(probe.result)
          /\ (probe.result.kind = "undefined") = ~HasDigit(probe.arg)
          /\ HasDigit(probe.arg) =>
                probe.result.val =
                    DigitsValue(StripCommas(FirstRun(probe.arg)[1]), 1, 0)
          /\ probe.arg = "1,250 lbs" => probe.result.val = 1250
    /\ \A k \in 1..Len(events) :
          IsAbsentOrNatural(events[k].pounds) /\ IsAbsentOrNatural(events[k].numberOfFish)

\* a <= b on two strings
StringLeq(a, b) == ~StringLess(b, a)

\* the events of the input inside [start, end], in input order, where the
\* bounds in unrestricted impose no restriction
Inside(evs, startDate, endDate, unrestricted) ==
    SelectSeq(evs, LAMBDA e :
        /\ startDate \in unrestricted \/ StringLeq(startDate[1], e.date)
        /\ endDate \in unrestricted \/ StringLeq(e.date, endDate[1]))

\* C20 as stated: filterEventsByDateRange returns exactly the events with
\* start <= date <= end under string comparison, in input order, where only
\* an omitted bound imposes no restriction (so with both omitted it returns
\* every event).
C20_FilterAsStated ==
    (probe.called /\ probe.fn = "filterEventsByDateRange")
    => probe.result = Inside(probe.arg[1], probe.arg[2], probe.arg[3], {<<>>})

\* C20: filterEventsByDateRange returns exactly the events with
\* start <= date <= end under string comparison, in input order and without
\* changing the input, an event whose date equals a bound being kept, where
\* a bound that is omitted or is the empty string imposes no restriction;
\* with both bounds omitted it returns every event.
C20_FilterDateRange ==
    (probe.called /\ probe.fn = "filterEventsByDateRange")
    => /\ probe.result = Inside(probe.arg[1], probe.arg[2], probe.arg[3], {<<>>, <<"">>})
       /\ (probe.arg[2] = <<>> /\ probe.arg[3] = <<>>) => probe.result = probe.arg[1]

\* a range whose end is the empty string and whose start equals the date of
\* an event that is kept, while an earlier event is dropped
C20_Witness ==
    /\ probe.called /\ probe.fn = "filterEventsByDateRange"
    /\ probe.arg[3] = <<"">>
    /\ probe.arg[2] # <<>>
    /\ \E k \in 1..Len(probe.result) : probe.result[k].date = probe.arg[2][1]
    /\ Len(probe.result) < Len(probe.arg[1])

(***************************************************************************)
(* The DOM copy against the regex copy, checked under SpecScrape on the    *)
(* page the scrape received.                                               *)
(***************************************************************************)
\* the fields of an event the two copies are compared on
Compared(e) ==
    [id |-> e.id, waterBody |-> e.waterBody, county |-> e.county,
     species |-> e.species, date |-> e.date, category |-> e.category,
     numberOfFish |-> e.numberOfFish]

\* what a copy makes of a document: whether it raised, the table it stopped
\* at (0 when it ran through all of them) and the compared fields of its events
Extraction(v, doc) ==
    Only({ [raised |-> r.raised,
            selected |-> IF Len(r.events) > 0 THEN r.scanned[Len(r.scanned)] ELSE 0,
            events |-> [k \in 1..Len(r.events) |-> Compared(r.events[k])] @@ <<>>]
           : r \in {ParsePage(v, doc)} })

\* C21: on the same document the DOM-based scraper ("range") and the
\* regex-based scraper ("edge") select the same table and emit events for the
\* same rows, in the same order, with equal id, waterBody, county, species,
\* date, category and numberOfFish.
C21_CopiesEquivalent ==
    html # <<>> => Extraction("range", Page) = Extraction("edge", Page)

(***************************************************************************)
(* Ids and order of the events of one scrape, checked under SpecScrape.    *)
(***************************************************************************)
\* the table the returned events were read from (the scan stops at it)
SelectedTable == Page[scanned[Len(scanned)]]

\* the ordinals, among all <tr> of a table (header = 0), of the rows whose
\* body reaches events.push, in row order
EmittingOrdinals(v, table) ==
    SelectSeq([i \in 1..(Len(table) - 1) |-> i] @@ <<>>,
              LAMBDA i : OutcomeAt(v, table, i).kind = "event")

\* the id as the claim words it: the three components joined by hyphens,
\* lower-cased, every whitespace run replaced by one hyphen
StatedId(waterBody, date, ordinal) ==
    Join(<<ToLowerCase(ReplaceWsRuns(waterBody)), ToLowerCase(date), ToString(ordinal)>>,
         "-")

\* EmittingOrdinals for every copy and every table of the model's pages
OrdinalsOf ==
    [p \in Variants \X ModelTables |->
        IF Viable(p[1], p[2]) THEN EmittingOrdinals(p[1], p[2]) ELSE <<>>] @@ <<>>

\* for every copy and table: the events read from the table are those of
\* its emitting rows and each id is as stated
IdsAsStated ==
    [p \in Variants \X ModelTables |->
        \E r \in {TableResults[p]}, ordinals \in {OrdinalsOf[p]} :
            r.raised \/
            /\ Len(ordinals) = Len(r.events)
            /\ \A k \in 1..Len(r.events) :
                  r.events[k].id = StatedId(r.events[k].waterBody, r.events[k].date,
                                            ordinals[k])] @@ <<>>

\* C22: the id of every returned event is the hyphen-joined, lower-cased
\* concatenation of its waterBody, its ISO date and the ordinal of its row
\* among all rows of the table (header = 0, skipped rows counted), with every
\* whitespace run replaced by one hyphen; and parsing the same page again
\* gives the same ids.
C22_IdDerivation ==
    (pc = "done" /\ events # <<>>) =>
        /\ events = TableResults[<<variant, SelectedTable>>].events
        /\ IdsAsStated[<<variant, SelectedTable>>]
        /\ \E again \in {ParsePage(variant, Page).events} :
              /\ Len(again) = Len(events)
              /\ \A k \in 1..Len(events) : again[k].id = events[k].id

\* the only event comes from the second data row (the first was skipped) of
\* a water body written with a capital letter and a blank
C22_Witness ==
    /\ pc = "done"
    /\ Len(events) = 1
    /\ events[1].waterBody = "Smith Creek"
    /\ events[1].id = "smith-creek-2024-06-01t00:00:00.000z-2"

(***************************************************************************)
(* Expiry without a background sweep, checked under SpecCache.             *)
(***************************************************************************)
\* a call that is allowed to remove or replace what is stored under k
Touches(k) ==
    \/ Get(k) \/ GetStatus(k) \/ Has(k) \/ Clear(k) \/ ClearAll
    \/ \E d \in DataValues, t \in TtlArgs : Set(k, d, t)

\* C23: there is no background expiry.  An expired entry stays in the store,
\* unchanged, until a get, getStatus, has, clear or set on its own key or a
\* clearAll; the passage of time alone never changes the store, and no call
\* on another key removes or modifies the entry.
C23_NoBackgroundExpiry ==
    [][ /\ \A k \in Keys :
              ( /\ store[k] # <<>>
                /\ IsExpired(store[k][1])
                /\ store'[k] # store[k] ) => Touches(k)
        /\ (now' # now) => store' = store ]_vars

\* an entry that expired is still stored after a later call on the other key
C23_Witness ==
    \E k \in Keys :
        /\ store[k] # <<>>
        /\ IsExpired(store[k][1])
        /\ last.op \in {"get", "getStatus", "has", "set", "clear"}
        /\ last.key # k
        /\ last.at > store[k][1].expiresAt

(***************************************************************************)
(* Properties of the stocking-data route, checked under SpecRoute.         *)
(***************************************************************************)
\* the requests whose scrape succeeded (each of them ran cache.set)
Stored == {r \in 1..Len(route) : route[r].scrape # <<>> /\ route[r].scrape[1].ok}

\* the request whose set ran last
LastStored == CHOOSE r \in Stored : \A q \in Stored : route[q].scrape[1].step <= route[r].scrape[1].step

\* a POST began (and cleared the key) after the last set
ClearedSince ==
    \E q \in 1..Len(route) :
        route[q].method = "POST" /\ route[q].step > route[LastStored].scrape[1].step

\* C24 as stated: once any scrape has succeeded and stored and every request
\* has answered, the cache holds an entry, and it is the complete result of
\* the set that ran last.
C24_LastWriteAsStated ==
    (Stored # {} /\ \A r \in 1..Len(route) : route[r].phase = "done") =>
        /\ store[CACHE_KEY] # <<>>
        /\ store[CACHE_KEY][1].data = <<route[LastStored].scrape[1].events>>

\* C24: with requests interleaving in any order, an entry under
\* 'stocking-data' is always exactly the complete result of the set that ran
\* last, stamped with the time of that set (never a merge of two results and
\* never a partial entry); and once a scrape has succeeded and stored, the
\* entry is absent only if a POST has cleared the key since that set or the
\* entry has outlived its TTL.
C24_LastWriteWins ==
    /\ store[CACHE_KEY] # <<>> =>
          /\ Stored # {}
          /\ store[CACHE_KEY][1] =
                [data |-> <<route[LastStored].scrape[1].events>>,
                 timestamp |-> route[LastStored].scrape[1].at,
                 expiresAt |-> route[LastStored].scrape[1].at + defaultTTL]
    /\ (Stored # {} /\ store[CACHE_KEY] = <<>>) =>
          \/ ClearedSince
          \/ now > route[LastStored].scrape[1].at + defaultTTL

\* two requests were scraping at the same time, both scrapes succeeded with
\* different lists, and the cache holds the list of the one that ended last
C24_Witness ==
    \E a, b \in Stored :
        /\ route[a].step < route[b].step
        /\ route[b].step < route[a].scrape[1].step
        /\ route[b].scrape[1].step < route[a].scrape[1].step
        /\ route[a].scrape[1].events # route[b].scrape[1].events
        /\ store[CACHE_KEY] # <<>>
        /\ store[CACHE_KEY][1].data = <<route[a].scrape[1].events>>

\* the GETs without refresh=true that called the scraper
PlainScrapes ==
    {r \in 1..Len(route) :
        route[r].method = "GET" /\ ~route[r].query.refresh /\ route[r].scraped}

\* a POST began (and cleared the key) between steps m and n
ClearedBetween(m, n) ==
    \E q \in 1..Len(route) :
        route[q].method = "POST" /\ route[q].step > m /\ route[q].step < n

\* the list a request found in the cache: the result of the last set before
\* it began
CachedFor(r) ==
    LET before == {q \in Stored : route[q].scrape[1].step < route[r].step}
        latest == CHOOSE q \in before :
                     \A p \in before : route[p].scrape[1].step <= route[q].scrape[1].step
    IN  route[latest].scrape[1].events

\* what a GET answers from a list: the list itself, or its events inside the
\* range of the query when the query carries a non-empty bound
Answered(evs, query) ==
    IF query.startDate \in {<<>>, <<"">>} /\ query.endDate \in {<<>>, <<"">>} THEN evs
    ELSE Inside(evs, query.startDate, query.endDate, {<<>>, <<"">>})

\* C25 as stated: every two sequential GETs without refresh that both call
\* the scraper, with no clear in between, are more than one TTL apart,
\* whether the first scrape succeeded or not.
C25_OneScrapePerWindowAsStated ==
    \A a, b \in PlainScrapes :
        ( /\ route[a].scrape # <<>>
          /\ route[a].scrape[1].step < route[b].step
          /\ ~ClearedBetween(route[a].step, route[b].step) )
        => route[b].began > route[a].began + defaultTTL

\* C25: a GET calls the scraper exactly when refresh=true or the cache holds
\* no unexpired entry under 'stocking-data'; a GET whose scrape succeeded has
\* stored the result (an empty list included) before it answers, so its
\* response reports the entry as cached with age 0; for sequential GETs
\* without refresh and with no clear in between, a successful scrape is
\* followed by no other scrape until its entry has outlived the TTL; and a GET
\* answered from the cache gets the stored list as the last set left it,
\* whatever filters earlier responses applied.
C25_ScrapeOnlyOnMiss ==
    /\ \A r \in 1..Len(route) :
          route[r].method = "GET" =>
             /\ route[r].scraped = (route[r].query.refresh \/ route[r].found # "live")
             /\ (route[r].scrape # <<>> /\ route[r].scrape[1].ok) =>
                   /\ route[r].response[1].cache.isCached
                   /\ route[r].response[1].cache.age = <<0>>
                   /\ route[r].response[1].cache.lastUpdated =
                         <<ToISOString(route[r].scrape[1].at)>>
                   /\ route[r].response[1].data =
                         Answered(route[r].scrape[1].events, route[r].query)
             /\ ~route[r].scraped =>
                   /\ route[r].response[1].status = 200
                   /\ route[r].response[1].data = Answered(CachedFor(r), route[r].query)
                   /\ route[r].response[1].count = Len(route[r].response[1].data)
    /\ \A a, b \in PlainScrapes :
          ( /\ route[a].scrape # <<>>
            /\ route[a].scrape[1].ok
            /\ route[a].scrape[1].step < route[b].step
            /\ ~ClearedBetween(route[a].scrape[1].step, route[b].step) )
          => route[b].began > route[a].scrape[1].at + defaultTTL

\* a GET with a date filter scraped, stored two events and answered with one
\* of them; a later GET without filter was answered from the cache with both
C25_Witness ==
    /\ Len(route) = 2
    /\ route[1].method = "GET" /\ route[1].scraped
    /\ route[1].scrape # <<>> /\ route[1].scrape[1].ok
    /\ Len(route[1].scrape[1].events) = 2
    /\ Len(route[1].response[1].data) = 1
    /\ route[2].method = "GET" /\ ~route[2].scraped
    /\ route[2].response[1].data = route[1].scrape[1].events

\* two sequential GETs without refresh both scraped, the second after the
\* entry of the first had expired
C25_SecondWindowReached ==
    /\ Len(route) = 2
    /\ PlainScrapes = {1, 2}
    /\ route[1].scrape # <<>> /\ route[1].scrape[1].ok
    /\ route[1].scrape[1].step < route[2].step
    /\ route[2].found = "expired"

\* the requests whose scrape failed
Failed == {r \in 1..Len(route) : route[r].scrape # <<>> /\ ~route[r].scrape[1].ok}

\* request r has just answered and no other request took a step while it ran
RanAlone(r) == route[r].scrape[1].step = Steps /\ route[r].scrape[1].step = route[r].step + 1

\* the 500 answer of a failed request: success = false and no events
AnswersFailure(r) ==
    /\ route[r].response[1].status = 500
    /\ ~route[r].response[1].success
    /\ route[r].method = "GET" =>
          route[r].response[1].data = <<>> /\ route[r].response[1].count = 0

\* C26 as stated: a request whose scrape failed answers 500 with
\* success = false and no events; a failing GET leaves what is stored under
\* 'stocking-data' exactly as it was when the GET arrived; after a failing
\* POST the key is absent.
C26_FailureAsStated ==
    \A r \in Failed :
        /\ AnswersFailure(r)
        /\ RanAlone(r) =>
              store[CACHE_KEY] = IF route[r].method = "POST" THEN <<>> ELSE route[r].entry

\* C26: a request whose scrape failed answers 500 with success = false and
\* no events, and its catch block performs no cache.set; a failing GET leaves
\* what is stored under 'stocking-data' as it was when the GET arrived, except
\* that a GET without refresh=true has removed an expired entry when it read
\* the cache; after a failing POST the key is absent, even if an unexpired
\* entry existed before.
C26_FailureLeavesCache ==
    \A r \in Failed :
        /\ AnswersFailure(r)
        /\ RanAlone(r) =>
              store[CACHE_KEY] =
                 IF route[r].method = "POST" THEN <<>>
                 ELSE IF route[r].found = "expired" /\ ~route[r].query.refresh THEN <<>>
                 ELSE route[r].entry

\* a POST that found an unexpired entry has failed and left the key absent,
\* after an earlier request had stored that entry
C26_Witness ==
    \E r \in Failed :
        /\ route[r].method = "POST"
        /\ route[r].found = "live"
        /\ RanAlone(r)
        /\ store[CACHE_KEY] = <<>>

\* a GET with refresh=true that found an unexpired entry has failed and the
\* entry is still stored
C26_RefreshFailureReached ==
    \E r \in Failed :
        /\ route[r].method = "GET" /\ route[r].query.refresh
        /\ route[r].found = "live"
        /\ RanAlone(r)
        /\ store[CACHE_KEY] = route[r].entry

(***************************************************************************)
(* C27: idempotence of the sync job over the table with the unique index.  *)
(***************************************************************************)
\* the keys the table holds
KeysOf(rows) == {Key(row) : row \in rows}

\* the insert attempts of the n-th run that got past the scrape
RunEnd(n) == IF n < Len(syncRuns) THEN syncRuns[n + 1].base ELSE Len(attempts)
RunAttempts(n) == SubSeq(attempts, syncRuns[n].base + 1, RunEnd(n))

\* every record of the n-th run was sent and the database accepted it or
\* refused it as a duplicate key
AllAnswered(n) ==
    /\ Len(RunAttempts(n)) = Len(syncRuns[n].records)
    /\ \A k \in 1..Len(RunAttempts(n)) :
          RunAttempts(n)[k].outcome \in {"accepted", "duplicate"}

\* the keys of the n-th run that were not stored when it began
NewKeys(n) ==
    {Key(syncRuns[n].records[k]) : k \in 1..Len(syncRuns[n].records)}
        \ KeysOf(syncRuns[n].stored)

OnePerKey == \A r1, r2 \in dbTable : Key(r1) = Key(r2) => r1 = r2

\* the run that has just answered scraped the page of the run before it
SamePageAgain ==
    /\ syncPc = "done"
    /\ Len(syncRuns) >= 2
    /\ syncRuns[Len(syncRuns)].records = syncRuns[Len(syncRuns) - 1].records

\* C27 as stated: the table holds at most one record per key; a second run
\* against an unchanged page answers newRecords = 0 and duplicates =
\* scrapedEvents; the newRecords of every run is the number of distinct keys
\* among its scraped events that were not yet stored.
C27_IdempotentAsStated ==
    /\ OnePerKey
    /\ SamePageAgain =>
          /\ syncResult[1].newRecords = 0
          /\ syncResult[1].duplicates = syncResult[1].scrapedEvents
    /\ syncPc = "done" =>
          syncResult[1].newRecords = Cardinality(NewKeys(Len(syncRuns)))

\* C27: after any sequence of runs the table holds at most one record per
\* key; the newRecords of a run is the number of rows it added, at most the
\* number of distinct keys among its events that were not yet stored, and
\* exactly that number when every insert was accepted or refused as a
\* duplicate key; after a run in which every insert was so answered, a run
\* against the same page adds nothing, and when its inserts are so answered
\* too its duplicates is scrapedEvents.
C27_Idempotent ==
    /\ OnePerKey
    /\ syncPc = "done" =>
          /\ syncResult[1].newRecords =
                Cardinality(dbTable \ syncRuns[Len(syncRuns)].stored)
          /\ syncResult[1].newRecords <= Cardinality(NewKeys(Len(syncRuns)))
          /\ AllAnswered(Len(syncRuns)) =>
                syncResult[1].newRecords = Cardinality(NewKeys(Len(syncRuns)))
    /\ (SamePageAgain /\ AllAnswered(Len(syncRuns) - 1)) =>
          /\ syncResult[1].newRecords = 0
          /\ AllAnswered(Len(syncRuns)) =>
                syncResult[1].duplicates = syncResult[1].scrapedEvents

\* a second run over the page with a repeated key answered 0 new and 2
\* duplicates after the first run stored one row for the two events
C27_Witness ==
    /\ SamePageAgain
    /\ AllAnswered(1) /\ AllAnswered(2)
    /\ syncRuns[2].records = <<ToDbRecord(BigCreek), ToDbRecord(BigCreekAgain)>>
    /\ Cardinality(dbTable) = 1
    /\ syncResult[1].newRecords = 0
    /\ syncResult[1].duplicates = 2

(***************************************************************************)
(* C28: the column mapper.                                                 *)
(***************************************************************************)
\* the header cell at position i of the table matches a keyword of the field
Matches(v, field, table, i) ==
    \E k \in Keywords(v, field) :
        Includes(ToLowerCase(Trim(HeaderCells(table)[i])), k)

\* idx is the smallest 0-based index of a matching header cell, -1 for none
IsFirstMatch(v, field, table, idx) ==
    IF idx = -1
    THEN \A i \in 1..Len(HeaderCells(table)) : ~Matches(v, field, table, i)
    ELSE /\ idx + 1 \in 1..Len(HeaderCells(table))
         /\ Matches(v, field, table, idx + 1)
         /\ \A i \in 1..idx : ~Matches(v, field, table, i)

\* the table has a header row with a cell and its own header resolves the
\* date and the water body
OwnColumns(v, table) ==
    /\ Len(table) > 0
    /\ Len(HeaderCells(table)) > 0
    /\ \E i \in 1..Len(HeaderCells(table)) : Matches(v, "date", table, i)
    /\ \E i \in 1..Len(HeaderCells(table)) : Matches(v, "waterBody", table, i)

\* for every copy and table with a header row: each field is resolved to its
\* first matching header cell
FirstMatches ==
    [p \in Variants \X ModelTables |->
        Len(p[2]) > 0 =>
            \E indices \in {ColumnIndices(p[1], p[2])} :
                \A field \in Fields :
                    IsFirstMatch(p[1], field, p[2], indices[field])] @@ <<>>

\* OwnColumns for every copy and table
HasOwnColumns ==
    [p \in Variants \X ModelTables |-> OwnColumns(p[1], p[2])] @@ <<>>

\* C28: for every table of the page with a header row, the column mapper
\* resolves each field to the smallest index of a header cell whose trimmed,
\* lower-cased text contains a keyword of the field, -1 when there is none;
\* the mapping is rebuilt for every table: up to the last table whose rows
\* were read, the tables whose rows were read are those whose own header
\* resolves the date and the water body.
C28_ColumnMapper ==
    html # <<>> =>
        /\ \A t \in 1..Len(Page) : FirstMatches[<<variant, Page[t]>>]
        /\ \A k \in 1..Len(scanned) : HasOwnColumns[<<variant, Page[scanned[k]]>>]
        /\ \A t \in 1..Len(Page) :
              (HasOwnColumns[<<variant, Page[t]>>] /\ ~Contains(scanned, t)) =>
                 /\ scanned # <<>>
                 /\ t > scanned[Len(scanned)]

\* a page whose first table has no row and whose second table was not read:
\* its header has two cells that name the water body, the first of which is
\* resolved, and no date
C28_Witness ==
    /\ pc = "done"
    /\ variant = "edge"
    /\ Len(Page) = 2
    /\ Len(Page[1]) = 1
    /\ Len(Page[2]) = 2
    /\ HeaderCells(Page[1]) = <<"Date", "Water Body", "County", "Species">>
    /\ HeaderCells(Page[2]) = <<"Water Body", "Lake County">>
    /\ ColumnIndices(variant, Page[2])["waterBody"] = 0
    /\ ColumnIndices(variant, Page[2])["county"] = 1
    /\ ColumnIndices(variant, Page[2])["date"] = -1
    /\ scanned = <<1>>
    /\ events = <<>>

(***************************************************************************)
(* C29, C30: order and distinctness of the events of one scrape.           *)
(***************************************************************************)
\* the position of the last hyphen of s at or before i, 0 for none
RECURSIVE LastHyphen(_, _)
LastHyphen(s, i) ==
    IF i = 0 \/ Char(s, i) = "-" THEN i ELSE LastHyphen(s, i - 1)

\* the final component of the id of an event, read as a number (-1 when it
\* is not a run of digits)
RowOrdinal(e) ==
    Only({ IF Len(final) > 0 /\ \A i \in 1..Len(final) : IsDigit(Char(final, i))
           THEN ParseInt(final).val ELSE -1
           : final \in {SubSeq(e.id, LastHyphen(e.id, Len(e.id)) + 1, Len(e.id))} })

\* for every copy and table: the row ordinals of the events read from the
\* table are the ordinals of its emitting rows, in document order, and are
\* strictly increasing
InRowOrder ==
    [p \in Variants \X ModelTables |->
        \E evs \in {TableResults[p].events} :
            /\ TableResults[p].raised \/
                  [k \in 1..Len(evs) |-> RowOrdinal(evs[k])] @@ <<>> = OrdinalsOf[p]
            /\ \A j, k \in 1..Len(evs) :
                  j < k => RowOrdinal(evs[j]) < RowOrdinal(evs[k])] @@ <<>>

\* C29: the returned events are in the row order of the selected table: the
\* row ordinals of the events, first to last, are the ordinals of the rows of
\* that table that emit an event, in document order, hence strictly
\* increasing; nothing is sorted.
C29_RowOrder ==
    (pc = "done" /\ events # <<>>) =>
        /\ InRowOrder[<<variant, SelectedTable>>]
        /\ events = TableResults[<<variant, SelectedTable>>].events

\* two events in row order although the first has the later date
C29_Witness ==
    /\ pc = "done"
    /\ Len(events) = 2
    /\ RowOrdinal(events[1]) = 1
    /\ RowOrdinal(events[2]) = 2
    /\ events[1].date = "2024-06-02T00:00:00.000Z"
    /\ events[2].date = "2024-06-01T00:00:00.000Z"

\* for every copy and table: the events read from the table have pairwise
\* different ids, each is the event of the row whose ordinal ends its id, and
\* no two come from the same row
DistinctIds ==
    [p \in Variants \X ModelTables |->
        \E evs \in {TableResults[p].events} :
            /\ \A j, k \in 1..Len(evs) : j # k => evs[j].id # evs[k].id
            /\ \A j, k \in 1..Len(evs) :
                  j # k => RowOrdinal(evs[j]) # RowOrdinal(evs[k])
            /\ \A k \in 1..Len(evs) :
                  /\ RowOrdinal(evs[k]) \in 1..(Len(p[2]) - 1)
                  /\ OutcomeAt(p[1], p[2], RowOrdinal(evs[k])) = Emit(evs[k])] @@ <<>>

\* C30: within one scrape no two events have the same id: the events are
\* those read from one table, each from a row of its own, and the ordinal
\* of that row is the final component of the id.
C30_IdsUnique ==
    (pc = "done" /\ events # <<>>) =>
        /\ events = TableResults[<<variant, SelectedTable>>].events
        /\ DistinctIds[<<variant, SelectedTable>>]
        /\ \A j, k \in 1..Len(events) : j # k => events[j].id # events[k].id

\* two rows with the same water body and the same date gave two events
\* with different ids
C30_Witness ==
    /\ pc = "done"
    /\ Len(events) = 2
    /\ events[1].waterBody = events[2].waterBody
    /\ events[1].date = events[2].date
    /\ events[1].id # events[2].id

=============================================================================
